---- MODULE Spec2Model ----
(***************************************************************************)
(* Model of the Pivot collection viewer (js/pivot-animator.js and          *)
(* js/pivot-app.js): the FLIP transition engine with its registry of       *)
(* running animations, the browser's animation frame (finished promises    *)
(* are resolved and their reactions run before the finish events are       *)
(* dispatched), the filter / sort / group state of PivotApp, and the       *)
(* uniform-grid and grouped layout engines; the viewports of PivotApp and  *)
(* PivotViewer (js/pivot-viewer.js), the initialization of the four        *)
(* viewers, the detail panel of PivotApp with its slide animations, and    *)
(* the tiles in the world of the deep-zoom AdViewer (unnamed/part_000).    *)
(*                                                                         *)
(* Units: lengths of measured rectangles are in quarter pixels, opacity    *)
(* in thousandths; layout lengths are in pixels.                           *)
(***************************************************************************)
EXTENDS Integers, Sequences, FiniteSets, TLC

(* ------------------------------ bounds --------------------------------- *)

\* flip / fadeOut / fadeIn calls in one behaviour of the animator driven directly
MaxDirectCalls == 3
\* flip / fadeOut / fadeIn calls in one behaviour of PivotApp
MaxAppCalls == 5

(* --------------------------- the manifest ------------------------------ *)

\* data/ads.json: the items, in insertion order.  String attributes are
\* represented by their rank under localeCompare.
Ads ==
  << [id |-> 1, vertical |-> 2, size |-> 1],
     [id |-> 2, vertical |-> 1, size |-> 1],
     [id |-> 3, vertical |-> 1, size |-> 2] >>

NumAds == Len(Ads)

\* itemElements: one grid item element per ad, keyed by String(ad.id)
Elements == 1..NumAds

VARIABLES
  anims,              \* every Animation object created by el.animate()
  runningAnimations,  \* PivotAnimator.runningAnimations: Map element -> Animation
  calls,              \* one record per flip / fadeOut / fadeIn call (its Promise.all)
  microQ,             \* promise reactions (then(onComplete)) queued as microtasks
  finishQ,            \* finish events queued for dispatch in the current frame
  hidden,             \* el.dataset.hidden of every element
  display,            \* el.style.display of every element
  rect,               \* layout box and computed opacity of every element
  flipLog,            \* the steps of the most recent flip call, in order
  activeFilters,      \* PivotApp.activeFilters: one allow-list (array) per field
  filteredAds,        \* PivotApp.filteredAds: the Visible Set, as ad ids in order
  currentSortBy,      \* PivotApp.currentSortBy
  currentSortOrder,   \* PivotApp.currentSortOrder
  currentGroupBy,     \* PivotApp.currentGroupBy
  groupByValue,       \* elements.groupBy.value, the group-by select box
  userSetGroup,       \* PivotApp._userSetGroup
  changes,            \* filter changes made so far
  containerW,         \* elements.gridContainer.clientWidth
  containerH,         \* elements.gridContainer.clientHeight
  layoutN,            \* number of visible items handed to the layout engine
  layoutGroups,       \* sizes of the groups, in the order of their sorted keys
  layoutOut,          \* what the layout engine last computed
  page,               \* the viewer the page runs: "PivotApp" or "PivotViewer"
  scale,              \* this.scale of the viewer
  panOffset,          \* PivotApp.panOffset {x, y}
  isPanning,          \* PivotApp.isPanning
  panStart,           \* PivotApp.panStart {x, y}
  wrapper,            \* elements.gridWrapper.style width and height (PivotApp)
  fitTimer,           \* PivotApp: a delayed fitToViewport() is scheduled
  flipPending,        \* PivotApp: animateLayoutChange's onComplete is still to run
  translate,          \* PivotViewer.translateX, translateY
  isDragging,         \* PivotViewer.isDragging
  dragStart,          \* PivotViewer.dragStartX, dragStartY
  lastTranslate,      \* PivotViewer.lastTranslateX, lastTranslateY
  grid,               \* PivotViewer: the unscaled box of #image-grid
  viewLog,            \* the most recent viewport operation and the state it started from
  viewOps,            \* viewport operations made so far
  response,           \* what fetch('data/ads.json') and response.json() yield
  initAt,             \* where init() of the viewer stands
  ads,                \* this.ads.length
  dataFields,         \* filterValues / verticals / metadata has been assigned
  errors,             \* console.error calls made so far
  steps,              \* the methods init() has called and that returned
  filterOptions,      \* the filter options have been put into the sidebar
  loadingHidden,      \* #loading carries the class "hidden"
  uncaught,           \* the exception that ended init(), or "none"
  filterBox,          \* the document has the container of the filter options
  detailOpen,         \* PivotApp.detailOpen
  selectedIndex,      \* PivotApp.selectedIndex (an index of JavaScript: from 0, -1 for none)
  detailShown,        \* the ad whose image and metadata the detail panel holds, 0 for none
  panelDisplay,       \* elements.detailPanel.style.display
  slides,             \* the slide animations playing on the detail panel, oldest first
  lastFinish,         \* the slide whose finish handler ran last
  world,              \* AdViewer: viewer.world, the set of its tiles
  loading,            \* AdViewer: addSimpleImage requests whose image has not loaded yet
  removals,           \* AdViewer: tiles with a pending removeItem timer
  requested           \* AdViewer: addSimpleImage requests made so far

animVars == <<anims, runningAnimations, calls, microQ, finishQ, hidden, display,
              rect, flipLog>>

appVars == <<activeFilters, filteredAds, currentSortBy, currentSortOrder,
             currentGroupBy, groupByValue, userSetGroup, changes>>

layoutVars == <<containerW, containerH, layoutN, layoutGroups, layoutOut>>

viewVars == <<page, scale, panOffset, isPanning, panStart, wrapper, fitTimer,
              flipPending, translate, isDragging, dragStart, lastTranslate, grid,
              viewLog, viewOps>>

bootVars == <<response, initAt, ads, dataFields, errors, steps, filterOptions,
              loadingHidden, uncaught, filterBox>>

detailVars == <<detailOpen, selectedIndex, detailShown, panelDisplay, slides, lastFinish>>

worldVars == <<world, loading, removals, requested>>

vars == <<anims, runningAnimations, calls, microQ, finishQ, hidden, display,
          rect, flipLog, activeFilters, filteredAds, currentSortBy,
          currentSortOrder, currentGroupBy, groupByValue, userSetGroup, changes,
          containerW, containerH, layoutN, layoutGroups, layoutOut,
          page, scale, panOffset, isPanning, panStart, wrapper, fitTimer,
          flipPending, translate, isDragging, dragStart, lastTranslate, grid,
          viewLog, viewOps,
          response, initAt, ads, dataFields, errors, steps, filterOptions,
          loadingHidden, uncaught, filterBox,
          detailOpen, selectedIndex, detailShown, panelDisplay, slides, lastFinish,
          world, loading, removals, requested>>

(* ------------------------- measured geometry --------------------------- *)

\* getBoundingClientRect() of an element that is not rendered (display: none)
RZero == [x |-> 0, y |-> 0, w |-> 0, h |-> 0, op |-> 1000]
\* a 100 x 100 px box at (10, 10), fully opaque
RBase == [x |-> 40, y |-> 40, w |-> 400, h |-> 400, op |-> 1000]
\* RBase moved and resized
RFar == [x |-> 440, y |-> 40, w |-> 200, h |-> 200, op |-> 1000]

Abs(n) == IF n < 0 THEN -n ELSE n

\* parseFloat(getComputedStyle(el).opacity) || 1
OpacityOf(raw) == IF raw = 0 THEN 1000 ELSE raw

\* last.width || 1 (one pixel)
OrOnePx(len) == IF len = 0 THEN 4 ELSE len

\* Math.abs(first / (last || 1) - 1) < 0.01
RatioNearOne(firstLen, lastLen) ==
  100 * Abs(firstLen - OrOnePx(lastLen)) < OrOnePx(lastLen)

\* 0.5 px
HalfPixel == 2

\* 0.01 of opacity
OpacityStep == 10

\* "Skip if no movement"
NoMovement(first, last) ==
  /\ Abs(first.x - last.x) < HalfPixel
  /\ Abs(first.y - last.y) < HalfPixel
  /\ RatioNearOne(first.w, last.w)
  /\ RatioNearOne(first.h, last.h)
  /\ Abs(OpacityOf(first.op) - OpacityOf(last.op)) < OpacityStep

\* what getBoundingClientRect / getComputedStyle report for el
Measured(disp, box, el) == IF disp[el] = "none" THEN RZero ELSE box[el]

(* ------------------------------ JS Map --------------------------------- *)

MapHas(m, k) == \E p \in m : p[1] = k
MapGet(m, k) == (CHOOSE p \in m : p[1] = k)[2]
MapDelete(m, k) == {p \in m : p[1] # k}
MapSet(m, k, v) == MapDelete(m, k) \cup {<<k, v>>}

(* ---------------------------- sequences -------------------------------- *)

RECURSIVE SetToSeq(_)
\* the elements of a set of integers, ascending
SetToSeq(s) ==
  IF s = {} THEN <<>>
  ELSE LET m == CHOOSE a \in s : \A b \in s : a <= b
       IN <<m>> \o SetToSeq(s \ {m})

Range(sq) == {sq[i] : i \in 1..Len(sq)}

(* ----------------------- the animator's state -------------------------- *)

\* the part of the state PivotAnimator and its callbacks read and write
Cur ==
  [anims |-> anims, reg |-> runningAnimations, calls |-> calls, microQ |-> microQ,
   hidden |-> hidden, display |-> display, log |-> flipLog]

Install(S) ==
  /\ anims' = S.anims
  /\ runningAnimations' = S.reg
  /\ calls' = S.calls
  /\ microQ' = S.microQ
  /\ hidden' = S.hidden
  /\ display' = S.display
  /\ flipLog' = S.log

\* Promise.all(...).catch(() => {}): the first rejected promise rejects the batch
RejectCall(cs, c) ==
  IF cs[c].status = "pending" THEN [cs EXCEPT ![c].status = "rejected"] ELSE cs

\* Animation.cancel(): the animation becomes idle; when it was still running its
\* finished promise is rejected
cancel(S, id) ==
  LET a == S.anims[id] IN
  IF a.state = "idle" THEN S
  ELSE [S EXCEPT !.anims[id].state = "idle",
                 !.calls = IF a.state = "running" THEN RejectCall(@, a.call) ELSE @]

RECURSIVE cancelEach(_, _, _)
\* this.runningAnimations.forEach(animation => animation.cancel())
cancelEach(S, ids, i) ==
  IF i > Len(ids) THEN S ELSE cancelEach(cancel(S, ids[i]), ids, i + 1)

\* the registered animations are cancelled and stay registered
cancelAllKeep(S) == cancelEach(S, SetToSeq({p[2] : p \in S.reg}), 1)

\* PivotAnimator.cancelAll()
cancelAll(S) == [cancelEach(S, SetToSeq({p[2] : p \in S.reg}), 1) EXCEPT !.reg = {}]

\* the animation registered for the element is left playing
cancelNothing(S, el) == S

\* "Cancel any running animation on this element"
cancelRunning(S, el) ==
  IF MapHas(S.reg, el) THEN cancel(S, MapGet(S.reg, el)) ELSE S

\* el.animate(...) ; runningAnimations.set(el, animation) ; animations.push(animation)
startAnimation(S, el, kind, remove) ==
  LET c == Len(S.calls)
      id == Len(S.anims) + 1
      S1 == cancelRunning(S, el)
  IN [S1 EXCEPT
        !.anims = Append(@, [el |-> el, kind |-> kind, state |-> "running",
                             call |-> c, remove |-> remove]),
        !.reg = MapSet(@, el, id),
        !.calls[c].anims = @ \cup {id}]

\* a call record; its Promise.all is built when the loop over the elements ends
NewCall(kind, els, cont, arg, change) ==
  [kind |-> kind, elements |-> els, anims |-> {}, status |-> "building",
   completeCount |-> 0, cont |-> cont, arg |-> arg, change |-> change]

openCall(S, kind, els, cont, arg, change) ==
  [S EXCEPT !.calls = Append(@, NewCall(kind, els, cont, arg, change))]

\* Promise.all(animations.map(a => a.finished)).then(onComplete).catch(() => {})
\* An empty batch is already resolved: its reaction is queued at once.
closeCall(S) ==
  LET c == Len(S.calls) IN
  IF S.calls[c].anims = {}
  THEN [S EXCEPT !.calls[c].status = "resolved", !.microQ = Append(@, c)]
  ELSE IF \E id \in S.calls[c].anims : S.anims[id].state = "idle"
       THEN [S EXCEPT !.calls[c].status = "rejected"]
       ELSE [S EXCEPT !.calls[c].status = "pending"]

RECURSIVE firstPass(_, _)
\* FIRST: record the starting position of every element
firstPass(els, i) ==
  IF i > Len(els) THEN <<>>
  ELSE <<[ev |-> "first", el |-> els[i]]>> \o firstPass(els, i + 1)

\* the layout change runs before the starting positions are recorded
layoutThenCapture(els) == <<[ev |-> "layout", el |-> 0]>> \o firstPass(els, 1)

\* FIRST: record starting positions; LAST: apply the layout change
captureThenLayout(els) == firstPass(els, 1) \o <<[ev |-> "layout", el |-> 0]>>

RECURSIVE flipLoop(_, _, _, _, _)
\* INVERT & PLAY: elements.forEach((el, index) => ...)
flipLoop(S, els, i, first, last) ==
  IF i > Len(els) THEN S
  ELSE
    LET el == els[i]
        S1 == [S EXCEPT !.log = Append(@, [ev |-> "last", el |-> el])]
    IN IF NoMovement(first[el], last[el])
       THEN flipLoop(S1, els, i + 1, first, last)
       ELSE flipLoop(
              [startAnimation(S1, el, "flip", FALSE) EXCEPT
                 !.log = Append(@, [ev |-> "start", el |-> el])],
              els, i + 1, first, last)

\* PivotAnimator.flip(elements, layoutChange, {onComplete})
flip(S, els, first, last, cont, arg, change) ==
  LET S0 == openCall(S, "flip", Range(els), cont, arg, change)
      S1 == [S0 EXCEPT !.log = captureThenLayout(els)]
  IN closeCall(flipLoop(S1, els, 1, first, last))

RECURSIVE fadeLoop(_, _, _, _, _)
\* elements.forEach of fadeOut and fadeIn
fadeLoop(S, els, i, kind, remove) ==
  IF i > Len(els) THEN S
  ELSE
    LET el == els[i]
        \* fadeIn: "Make visible first"
        S1 == IF kind = "fadeIn"
              THEN [S EXCEPT !.display[el] = "", !.hidden[el] = "unset"]
              ELSE S
    IN fadeLoop(startAnimation(S1, el, kind, remove), els, i + 1, kind, remove)

\* PivotAnimator.fadeOut(elements, {remove, onComplete})
fadeOut(S, els, remove, cont, arg, change) ==
  closeCall(fadeLoop(openCall(S, "fadeOut", Range(els), cont, arg, change),
                     els, 1, "fadeOut", remove))

\* PivotAnimator.fadeIn(elements, {onComplete})
fadeIn(S, els, cont, arg, change) ==
  closeCall(fadeLoop(openCall(S, "fadeIn", Range(els), cont, arg, change),
                     els, 1, "fadeIn", FALSE))

\* animation.onfinish of the three kinds
onfinish(S, id) ==
  LET a == S.anims[id]
      S1 == [S EXCEPT !.reg = MapDelete(@, a.el)]
  IN IF a.kind = "fadeOut" /\ a.remove
     THEN [S1 EXCEPT !.display[a.el] = "none", !.hidden[a.el] = "true"]
     ELSE S1


(* --------------------------- layout engines ---------------------------- *)

\* PivotApp layout settings
baseHeight == 50
itemGap == 4
blockGap == 60
padding == 20

\* admissible cell sizes of the uniform grid
minCell == 30
maxCell == 200

\* bestCellSize before any candidate is accepted
defaultCell == 60

Max(a, b) == IF a >= b THEN a ELSE b

\* Math.ceil(n / d) for d > 0
CeilDiv(n, d) == -((-n) \div d)

\* a candidate whose cells fill the layout area with nothing left for the gaps
CandidateNoGap(n, cw, ch, cols) ==
  LET rows == CeilDiv(n, cols)
      byWidth == cw * rows <= ch * cols
      num == IF byWidth THEN cw ELSE ch
      den == IF byWidth THEN cols ELSE rows
  IN [cols |-> cols, rows |-> rows, num |-> num, den |-> den,
      waste |-> Abs(cw * den - cols * num) + Abs(ch * den - rows * num)]

\* One candidate column count of the uniform grid.  Cell sizes and wasted space
\* are fractions num / den with den > 0, compared by cross-multiplication.
\*   cellWidth  = (containerWidth  - (cols - 1) * itemGap) / cols
\*   cellHeight = (containerHeight - (rows - 1) * itemGap) / rows
\*   cellSize   = Math.min(cellWidth, cellHeight)
\*   wastedSpace = |containerWidth - gridWidth| + |containerHeight - gridHeight|
Candidate(n, cw, ch, cols) ==
  LET rows == CeilDiv(n, cols)
      wn == cw - (cols - 1) * itemGap
      hn == ch - (rows - 1) * itemGap
      byWidth == wn * rows <= hn * cols
      num == IF byWidth THEN wn ELSE hn
      den == IF byWidth THEN cols ELSE rows
  IN [cols |-> cols, rows |-> rows, num |-> num, den |-> den,
      waste |-> Abs(cw * den - cols * num - (cols - 1) * itemGap * den)
                + Abs(ch * den - rows * num - (rows - 1) * itemGap * den)]

\* "Skip if cells would be too small or too large"
TooSmallOrLarge(c) == c.num < minCell * c.den \/ c.num > maxCell * c.den

\* a candidate replaces the best one also when it wastes just as much
BetterFitOrEqual(c, best) == ~best.found \/ c.waste * best.den <= best.waste * c.den

\* wastedSpace < bestFit (bestFit is Infinity until a candidate is accepted)
BetterFit(c, best) == ~best.found \/ c.waste * best.den < best.waste * c.den

\* the body of "if (wastedSpace < bestFit) { ... }": the candidate becomes the best
accept(c, best) ==
  IF ~TooSmallOrLarge(c) /\ BetterFit(c, best)
  THEN [found |-> TRUE, cols |-> c.cols, rows |-> c.rows,
        num |-> c.num, den |-> c.den, waste |-> c.waste]
  ELSE best

RECURSIVE bestFitLoop(_, _, _, _, _)
\* for (let cols = 1; cols <= totalItems; cols++)
bestFitLoop(n, cw, ch, cols, best) ==
  IF cols > n THEN best
  ELSE bestFitLoop(n, cw, ch, cols + 1, accept(Candidate(n, cw, ch, cols), best))

\* bestCellSize = 60, bestCols = 1, bestRows = 1, bestFit = Infinity
NoBest == [found |-> FALSE, cols |-> 1, rows |-> 1, num |-> defaultCell, den |-> 1,
           waste |-> 0]

\* "Calculate final grid dimensions" and "Position items in grid" for the best
\* candidate.  Offsets and positions are doubled (half pixels).
placeGrid(n, cw, ch, best) ==
  LET cellSize == best.num \div best.den
      cols == best.cols
      gridWidth == cols * cellSize + (cols - 1) * itemGap
      gridHeight == best.rows * cellSize + (best.rows - 1) * itemGap
      offsetX2 == Max(0, cw - gridWidth)
      offsetY2 == Max(0, ch - gridHeight)
  IN [kind |-> "grid", n |-> n, cw |-> cw, ch |-> ch, found |-> best.found,
      cols |-> cols, bestRows |-> best.rows, num |-> best.num, den |-> best.den,
      waste |-> best.waste, cellSize |-> cellSize,
      items |-> [i \in 1..n |->
                   [col |-> (i - 1) % cols, row |-> (i - 1) \div cols,
                    x2 |-> offsetX2 + 2 * ((i - 1) % cols) * (cellSize + itemGap),
                    y2 |-> offsetY2 + 2 * ((i - 1) \div cols) * (cellSize + itemGap),
                    w |-> cellSize, h |-> cellSize]]]

\* the uniform grid for n visible items in a layout area of cw x ch
gridIn(n, cw, ch) == placeGrid(n, cw, ch, bestFitLoop(n, cw, ch, 1, NoBest))

\* PivotApp.applyGridLayout for n visible items in a container of client size
\* w x h
applyGridLayout(n, w, h) == gridIn(n, w - padding * 2, h - padding * 2)

\* margins of the group labels
labelHeight == 40
labelMargin == 10

\* the stacks are aligned at their tops
stackTopAtZero(maxStackHeight, blockHeight) == 0

\* "Align stacks to bottom (with space for label below)"
stackTop(maxStackHeight, blockHeight) == maxStackHeight - blockHeight

RECURSIVE maxStack(_, _, _)
\* "Find the tallest stack to align bottoms"
maxStack(sizes, i, cols) ==
  IF i > Len(sizes) THEN 0
  ELSE Max(CeilDiv(sizes[i], cols) * (baseHeight + itemGap), maxStack(sizes, i + 1, cols))

\* as many columns as the slot takes when the gap between the blocks is not left free
groupColsFilling(columnWidth) == Max(1, CeilDiv(columnWidth, baseHeight + itemGap))

\* "Calculate columns that fit in allocated width": at least one
groupCols(columnWidth) == Max(1, (columnWidth - blockGap) \div (baseHeight + itemGap))

\* PivotApp.applyGroupedLayout for groups of the given sizes (in the order of
\* their sorted keys) in a container of client width w.  Horizontal positions
\* are doubled (half pixels).
applyGroupedLayout(sizes, w) ==
  LET canvasWidth == w - padding * 2
      numGroups == Len(sizes)
      columnWidth == canvasWidth \div numGroups
      cellSize == baseHeight
      cols == groupCols(columnWidth)
      maxStackHeight == maxStack(sizes, 1, cols)
  IN [kind |-> "grouped", sizes |-> sizes, canvasWidth |-> canvasWidth,
      columnWidth |-> columnWidth, cols |-> cols, maxStackHeight |-> maxStackHeight,
      groups |-> [g \in 1..numGroups |->
        LET count == sizes[g]
            groupCenterX2 == (2 * (g - 1) + 1) * columnWidth
            rows == CeilDiv(count, cols)
            blockWidth == cols * (cellSize + itemGap) - itemGap
            blockHeight == rows * (cellSize + itemGap) - itemGap
            blockX2 == groupCenterX2 - blockWidth
            stackTopY == stackTop(maxStackHeight, blockHeight)
        IN [count |-> count, rows |-> rows, blockWidth |-> blockWidth,
            blockHeight |-> blockHeight, blockX2 |-> blockX2, stackTopY |-> stackTopY,
            labelLeft2 |-> groupCenterX2 - 120,
            labelTop |-> maxStackHeight + labelMargin,
            items |-> [i \in 1..count |->
                         [x2 |-> blockX2 + 2 * ((i - 1) % cols) * (cellSize + itemGap),
                          y |-> stackTopY + ((i - 1) \div cols) * (cellSize + itemGap),
                          w |-> cellSize, h |-> cellSize]]]]]


(* ------------------- filter / sort / group state ----------------------- *)

\* the fields with an allow-list (adType, rating, brand and status are handled
\* exactly as size is)
Fields == {"vertical", "size"}

\* the sort keys exercised (every key is compared by the same comparator)
SortFields == {"size", "vertical"}

\* filterValues[field]: the values that occur in the manifest
FilterValues(field) == {Ads[i][field] : i \in 1..NumAds}

\* an ad fails as soon as one field's condition rejects it
MatchesAnyField(ad, filters) ==
  \E f \in Fields : ~(Len(filters[f]) > 0 /\ ad[f] \notin Range(filters[f]))

\* applyFilters, the loop over Object.entries(activeFilters):
\*   if (values.length > 0 && !values.includes(ad[field])) matches = false
Matches(ad, filters) ==
  \A f \in Fields : ~(Len(filters[f]) > 0 /\ ad[f] \notin Range(filters[f]))

\* if (!activeFilters[field].includes(value)) activeFilters[field].push(value)
pushIfAbsent(list, value) ==
  IF value \in Range(list) THEN list ELSE Append(list, value)

\* activeFilters[field].filter(v => v !== value)
without(list, value) == SelectSeq(list, LAMBDA v : v # value)

\* the comparator of sortAds on ads a and b (string fields by localeCompare,
\* numbers by difference), times the order
compare(a, b, field, order) == (Ads[a][field] - Ads[b][field]) * order

RECURSIVE insertSorted(_, _, _, _)
\* x placed behind every entry that does not compare greater: the sort is stable
insertSorted(sq, x, field, order) ==
  IF sq = <<>> THEN <<x>>
  ELSE IF compare(Head(sq), x, field, order) > 0 THEN <<x>> \o sq
       ELSE <<Head(sq)>> \o insertSorted(Tail(sq), x, field, order)

RECURSIVE sortFrom(_, _, _, _)
sortFrom(sq, i, field, order) ==
  IF i = 0 THEN <<>>
  ELSE insertSorted(sortFrom(sq, i - 1, field, order), sq[i], field, order)

\* PivotApp.sortAds: filteredAds.sort(...) in place (Array.prototype.sort is stable)
sortAds(fa, field, sortOrder) ==
  sortFrom(fa, Len(fa), field, IF sortOrder = "asc" THEN 1 ELSE -1)

\* this.ads.filter(ad => matchingIds.has(String(ad.id)))
filterAds(matching) == SelectSeq([i \in 1..NumAds |-> i], LAMBDA i : i \in matching)

\* the index of x in the sequence sq (0 when absent)
IndexOf(sq, x) == IF x \in Range(sq) THEN CHOOSE i \in 1..Len(sq) : sq[i] = x ELSE 0

\* a style box in quarter pixels from doubled left / top and width / height
GridBox(it, op) == [x |-> 2 * it.x2, y |-> 2 * it.y2, w |-> 4 * it.w, h |-> 4 * it.h, op |-> op]
GroupBox(it, op) == [x |-> 2 * it.x2, y |-> 4 * it.y, w |-> 4 * it.w, h |-> 4 * it.h, op |-> op]

\* the keys of the groups of the visible set, sorted by name
GroupKeys(fa, groupBy) == SetToSeq({Ads[fa[i]][groupBy] : i \in 1..Len(fa)})

\* the ads of one group, in the order of the visible set
GroupAds(fa, groupBy, key) == SelectSeq(fa, LAMBDA a : Ads[a][groupBy] = key)

\* PivotApp.applyLayout: the boxes of the item elements after the layout, given
\* the boxes before it.  Hidden items are not positioned.
applyLayout(boxes, hid, fa, groupBy, w, h) ==
  IF groupBy # ""
  THEN IF fa = <<>> THEN boxes
       ELSE
         LET keys == GroupKeys(fa, groupBy)
             sizes == [g \in 1..Len(keys) |-> Len(GroupAds(fa, groupBy, keys[g]))]
             out == applyGroupedLayout(sizes, w)
         IN [e \in Elements |->
               IF e \in Range(fa) /\ hid[e] # "true"
               THEN LET g == IndexOf(keys, Ads[e][groupBy])
                        i == IndexOf(GroupAds(fa, groupBy, keys[g]), e)
                    IN GroupBox(out.groups[g].items[i], boxes[e].op)
               ELSE boxes[e]]
  ELSE
    LET visibleItems == SelectSeq(fa, LAMBDA a : hid[a] # "true")
        out == applyGridLayout(Len(visibleItems), w, h)
    IN IF visibleItems = <<>> THEN boxes
       ELSE [e \in Elements |->
               IF e \in Range(visibleItems)
               THEN GridBox(out.items[IndexOf(visibleItems, e)], boxes[e].op)
               ELSE boxes[e]]

\* the state of the animator together with the boxes of the elements
WithBoxes(S, boxes) == [S |-> S, boxes |-> boxes]

\* PivotApp.animateLayoutChange: FLIP over the items not marked hidden, with
\* applyLayout as the layout change
animateLayoutChange(S, boxes, fa, groupBy, w, h, change) ==
  LET visibleItems == {e \in Elements : S.hidden[e] # "true"}
      after == applyLayout(boxes, S.hidden, fa, groupBy, w, h)
      first == [e \in Elements |-> Measured(S.display, boxes, e)]
      last == [e \in Elements |-> Measured(S.display, after, e)]
  IN WithBoxes(flip(S, SetToSeq(visibleItems), first, last, "layoutDone", {}, change),
               after)

\* the layout is animated at once, whatever has to be hidden first
animateAtOnce(S, boxes, toHide, fa, groupBy, w, h, change) ==
  animateLayoutChange(
    IF toHide # {}
    THEN fadeOut(S, SetToSeq(toHide), TRUE, "count", {}, change)
    ELSE S,
    boxes, fa, groupBy, w, h, change)

\* applyFilters, "Animate layout change": fade the items to hide out and lay out
\* again when that has completed, or lay out at once when nothing is to hide
animateChange(S, boxes, toHide, fa, groupBy, w, h, change) ==
  IF toHide # {}
  THEN WithBoxes(fadeOut(S, SetToSeq(toHide), TRUE, "fadeOutDone", toHide, change), boxes)
  ELSE animateLayoutChange(S, boxes, fa, groupBy, w, h, change)

(* ------------------------- the event loop ------------------------------ *)

\* no microtask and no animation event is waiting: the next task may run
Idle == microQ = <<>> /\ finishQ = <<>>

\* continuations that call the animator again when they run
Chains(cont) == cont \in {"animateFilter", "fadeOutDone", "fadeInDone"}

\* calls that may still run such a continuation
ReservedCalls ==
  Cardinality({c \in 1..Len(calls) :
                 calls[c].status = "pending" /\ Chains(calls[c].cont)})

\* room for k further calls, beside those the waiting continuations will make
Room(k, limit) == Len(calls) + ReservedCalls + k <= limit

\* the calls that still have an animation playing
Playing == {anims[id].call : id \in {i \in 1..Len(anims) : anims[i].state = "running"}}

\* One animation frame in which the animations of the batches B reach their end
\* (staggerDelay is 0, so the animations of one call end together): each becomes
\* finished, its finished promise is resolved and its finish event is queued; a
\* batch whose promises are now all resolved queues its then(onComplete) reaction.
FinishFrame(B) ==
  /\ Idle
  /\ B # {} /\ B \subseteq Playing
  /\ LET done == {id \in 1..Len(anims) : anims[id].state = "running" /\ anims[id].call \in B}
          settled == {c \in B : calls[c].status = "pending"}
     IN /\ anims' = [id \in 1..Len(anims) |->
                       IF id \in done THEN [anims[id] EXCEPT !.state = "finished"]
                       ELSE anims[id]]
        /\ finishQ' = SetToSeq(done)
        /\ calls' = [c \in 1..Len(calls) |->
                       IF c \in settled THEN [calls[c] EXCEPT !.status = "resolved"]
                       ELSE calls[c]]
        /\ microQ' = SetToSeq(settled)
  /\ UNCHANGED <<runningAnimations, hidden, display, rect, flipLog>>
  /\ UNCHANGED appVars
  /\ UNCHANGED layoutVars
  /\ UNCHANGED viewVars
  /\ UNCHANGED bootVars
  /\ UNCHANGED detailVars
  /\ UNCHANGED worldVars

\* the finish event of one animation is dispatched: its onfinish handler runs
DispatchFinish ==
  /\ microQ = <<>> /\ finishQ # <<>>
  /\ Install(onfinish(Cur, Head(finishQ)))
  /\ finishQ' = Tail(finishQ)
  /\ UNCHANGED rect
  /\ UNCHANGED appVars
  /\ UNCHANGED layoutVars
  /\ UNCHANGED viewVars
  /\ UNCHANGED bootVars
  /\ UNCHANGED detailVars
  /\ UNCHANGED worldVars

\* the measurements of one flip: before and after the layout change
Measurements(before, after) ==
  [first |-> [e \in Elements |-> Measured(display, before, e)],
   last |-> [e \in Elements |-> Measured(display, after, e)]]

\* the layouts a layoutChange over the elements els can produce
Layouts(els, boxes) ==
  {r \in [Elements -> boxes \cup {rect[e] : e \in Elements}] :
     /\ \A e \in Elements \ els : r[e] = rect[e]
     /\ \A e \in els : r[e] \in boxes}

(* ------------------- the animator driven directly ---------------------- *)

\* the elements the direct calls are made on
AnimEls == {1, 2}

\* the boxes a layout change produces when only moved / not moved matters
CoarseRects == {RBase, RFar}

\* animator.flip(els, layoutChange, {onComplete})
FlipCall(els, after) ==
  /\ Idle
  /\ rect' = after
  /\ LET m == Measurements(rect, after)
     IN Install(flip(Cur, SetToSeq(els), m.first, m.last, "count", {}, 0))
  /\ UNCHANGED finishQ
  /\ UNCHANGED appVars
  /\ UNCHANGED layoutVars
  /\ UNCHANGED viewVars
  /\ UNCHANGED bootVars
  /\ UNCHANGED detailVars
  /\ UNCHANGED worldVars

\* animator.fadeOut(els, {remove, onComplete})
FadeOutCall(els, remove) ==
  /\ Idle
  /\ Install(fadeOut(Cur, SetToSeq(els), remove, "count", {}, 0))
  /\ UNCHANGED <<finishQ, rect>>
  /\ UNCHANGED appVars
  /\ UNCHANGED layoutVars
  /\ UNCHANGED viewVars
  /\ UNCHANGED bootVars
  /\ UNCHANGED detailVars
  /\ UNCHANGED worldVars

\* animator.fadeIn(els, {onComplete})
FadeInCall(els) ==
  /\ Idle
  /\ Install(fadeIn(Cur, SetToSeq(els), "count", {}, 0))
  /\ UNCHANGED <<finishQ, rect>>
  /\ UNCHANGED appVars
  /\ UNCHANGED layoutVars
  /\ UNCHANGED viewVars
  /\ UNCHANGED bootVars
  /\ UNCHANGED detailVars
  /\ UNCHANGED worldVars

\* PivotAnimator.animateFilter(container, filterFn, layoutFn, options): the
\* container's children are AnimEls, filterFn holds of the elements of visible
animateFilter(S, visible, hiddenEls, first, last, change) ==
  IF hiddenEls # {}
  THEN fadeOut(S, SetToSeq(hiddenEls), TRUE, "animateFilter", visible, change)
  ELSE flip(S, SetToSeq(visible), first, last, "count", {}, change)

AnimateFilterCall(visible, after) ==
  LET hiddenEls == AnimEls \ visible IN
  /\ Idle
  /\ changes' = changes + 1
  /\ rect' = IF hiddenEls # {} THEN rect ELSE after
  /\ LET m == Measurements(rect, after)
     IN Install(animateFilter(Cur, visible, hiddenEls, m.first, m.last, changes + 1))
  /\ UNCHANGED finishQ
  /\ UNCHANGED <<activeFilters, filteredAds, currentSortBy, currentSortOrder,
                 currentGroupBy, groupByValue, userSetGroup>>
  /\ UNCHANGED layoutVars
  /\ UNCHANGED viewVars
  /\ UNCHANGED bootVars
  /\ UNCHANGED detailVars
  /\ UNCHANGED worldVars

\* the reaction then(onComplete) of the batch at the head of the microtask queue;
\* after is the layout that animateFilter's layoutFn produces
RunOnComplete(after, boxes) ==
  /\ microQ # <<>>
  /\ LET c == Head(microQ)
         cont == calls[c].cont
         S0 == [Cur EXCEPT !.microQ = Tail(@), !.calls[c].completeCount = @ + 1]
         m == Measurements(rect, after)
         \* applyFilters: toHide.forEach(item => item.style.display = 'none')
         S1 == IF cont = "fadeOutDone"
               THEN [S0 EXCEPT !.display = [e \in Elements |->
                                  IF e \in calls[c].arg THEN "none" ELSE @[e]]]
               ELSE S0
         R == animateLayoutChange(S1, rect, filteredAds, currentGroupBy,
                                  containerW, containerH, calls[c].change)
     IN IF cont = "animateFilter"
        THEN \* "Phase 2: FLIP remaining items to new positions"
             /\ after \in Layouts(calls[c].arg, boxes)
             /\ rect' = after
             /\ Install(flip(S0, SetToSeq(calls[c].arg), m.first, m.last,
                             "count", {}, calls[c].change))
        ELSE IF cont \in {"fadeOutDone", "fadeInDone"}
        THEN \* this.animateLayoutChange()
             /\ after = rect
             /\ rect' = R.boxes
             /\ Install(R.S)
        ELSE /\ after = rect
             /\ rect' = rect
             /\ Install(S0)
  /\ UNCHANGED finishQ
  /\ UNCHANGED appVars
  /\ UNCHANGED layoutVars
  /\ UNCHANGED viewVars
  /\ UNCHANGED bootVars
  /\ UNCHANGED detailVars
  /\ UNCHANGED worldVars

(* ------------------------------ viewport ------------------------------- *)

\* The viewers compute scale and translation with JavaScript numbers.  The model
\* computes with exact fractions [n, d] in lowest terms, d > 0.

RECURSIVE GCD(_, _)
GCD(a, b) == IF b = 0 THEN a ELSE GCD(b, a % b)

Reduce(n, d, g) == [n |-> n \div g, d |-> d \div g]

\* the number n / d (d # 0)
Ratio(n, d) ==
  IF d < 0 THEN Reduce(-n, -d, GCD(Abs(n), Abs(d))) ELSE Reduce(n, d, GCD(Abs(n), Abs(d)))

Num(k) == [n |-> k, d |-> 1]
Zero == Num(0)
One == Num(1)
\* sums, products and comparisons cancel common factors before they multiply
PlusBy(a, b, g) == Ratio(a.n * (b.d \div g) + b.n * (a.d \div g), (a.d \div g) * b.d)
Plus(a, b) == PlusBy(a, b, GCD(a.d, b.d))
Negated(a) == [n |-> -a.n, d |-> a.d]
Minus(a, b) == Plus(a, Negated(b))
TimesBy(a, b, g, h) == Ratio((a.n \div g) * (b.n \div h), (a.d \div h) * (b.d \div g))
Times(a, b) == TimesBy(a, b, GCD(Abs(a.n), b.d), GCD(Abs(b.n), a.d))
Inverse(b) == IF b.n < 0 THEN [n |-> -b.d, d |-> -b.n] ELSE [n |-> b.d, d |-> b.n]
\* a / b for b # 0
Over(a, b) == Times(a, Inverse(b))
Half(a) == Times(a, Ratio(1, 2))
LeqBy(a, b, g) == a.n * (b.d \div g) <= b.n * (a.d \div g)
Leq(a, b) == LeqBy(a, b, GCD(a.d, b.d))
Less(a, b) == ~Leq(b, a)
\* Math.min, Math.max
MinOf(a, b) == IF Leq(a, b) THEN a ELSE b
MaxOf(a, b) == IF Leq(a, b) THEN b ELSE a

Point(x, y) == [x |-> x, y |-> y]
Origin == Point(Zero, Zero)

\* this.minScale, this.maxScale: 0.1 and 10 in PivotApp, 0.3 and 4 in PivotViewer
minScale(p) == IF p = "PivotApp" THEN Ratio(1, 10) ELSE Ratio(3, 10)
maxScale(p) == IF p = "PivotApp" THEN Num(10) ELSE Num(4)

\* "const padding = 40" of fitToViewport; PivotViewer subtracts the same 40
fitPadding == 40
\* PivotViewer.fitToViewport: Math.min(scaleX, scaleY, 1.5)
maxFitScale == Ratio(3, 2)
\* updateContainerSize: maxY + this.padding + 30
wrapperExtra == 30

\* a scale that is not clamped
Unclamped(s, lo, hi) == s

\* Math.min(hi, Math.max(lo, s))
Clamp(s, lo, hi) == MinOf(hi, MaxOf(lo, s))

(* PivotApp *)

RECURSIVE maxRight2(_, _, _)
\* updateContainerSize: maxX over the visible items, in half pixels
maxRight2(items, i, acc) ==
  IF i > Len(items) THEN acc
  ELSE maxRight2(items, i + 1, Max(acc, items[i].x2 + 2 * items[i].w))

RECURSIVE maxBottom2(_, _, _)
\* updateContainerSize: maxY over the visible items, in half pixels
maxBottom2(items, i, acc) ==
  IF i > Len(items) THEN acc
  ELSE maxBottom2(items, i + 1, Max(acc, items[i].y2 + 2 * items[i].h))

RECURSIVE groupRight2(_, _, _)
\* updateContainerSize: maxX over the items of the groups, in half pixels
groupRight2(groups, g, acc) ==
  IF g > Len(groups) THEN acc
  ELSE groupRight2(groups, g + 1, maxRight2(groups[g].items, 1, acc))

RECURSIVE groupBottom(_, _, _)
\* updateContainerSize: maxY over the items of the groups; the last item of a group
\* is its lowest
groupBottom(groups, g, acc) ==
  IF g > Len(groups) THEN acc
  ELSE groupBottom(groups, g + 1,
                   Max(acc, groups[g].items[groups[g].count].y
                              + groups[g].items[groups[g].count].h))

\* updateContainerSize after a layout: the wrapper's style width and height; with
\* no visible item the wrapper keeps its size
updateContainerSize(layout, wr) ==
  IF layout.kind = "grid" /\ layout.n > 0
  THEN [w |-> Ratio(maxRight2(layout.items, 1, 0) + 2 * padding, 2),
        h |-> Ratio(maxBottom2(layout.items, 1, 0) + 2 * padding + 2 * wrapperExtra, 2)]
  ELSE IF layout.kind = "grouped"
  THEN [w |-> Ratio(groupRight2(layout.groups, 1, 0) + 2 * padding, 2),
        h |-> Num(groupBottom(layout.groups, 1, 0) + padding + wrapperExtra)]
  ELSE wr

\* the last two ifs of each block of constrainPan
notBelow(pan, edge) == IF Less(pan, edge) THEN edge ELSE pan
notAboveZero(pan) == IF Less(Zero, pan) THEN Zero ELSE pan

\* an axis block that clamps but never centres
clampOnly(pan, container, content) ==
  notBelow(notAboveZero(MaxOf(MinOf(Zero, Minus(container, content)), MinOf(Zero, pan))),
           Minus(container, content))

\* constrainPan, the block for x: content is the scaled content width
constrainX(pan, container, content) ==
  IF Leq(content, container) THEN Half(Minus(container, content))
  ELSE notBelow(notAboveZero(MaxOf(MinOf(Zero, Minus(container, content)),
                                   MinOf(Zero, pan))),
                Minus(container, content))

\* constrainPan, the block for y: content is the scaled content height
constrainY(pan, container, content) ==
  IF Leq(content, container) THEN Half(Minus(container, content))
  ELSE notBelow(notAboveZero(MaxOf(MinOf(Zero, Minus(container, content)),
                                   MinOf(Zero, pan))),
                Minus(container, content))

\* PivotApp.constrainPan: the constrained pan offset at scale sc in a container of
\* cw x ch with wrapper size wr
constrainPan(pan, sc, cw, ch, wr) ==
  Point(constrainX(pan.x, Num(cw), Times(wr.w, sc)),
        constrainY(pan.y, Num(ch), Times(wr.h, sc)))

\* "Adjust pan to keep center point stationary"
towards(center, pan, scaleChange) == Minus(center, Times(Minus(center, pan), scaleChange))

\* the pan offset of zoom before constrainPan
zoomPan(pan, oldScale, newScale, cw, ch) ==
  Point(towards(Ratio(cw, 2), pan.x, Over(newScale, oldScale)),
        towards(Ratio(ch, 2), pan.y, Over(newScale, oldScale)))

\* the scale PivotApp.zoom(factor) sets
zoomScale(sc, factor) == Clamp(Times(sc, factor), minScale("PivotApp"), maxScale("PivotApp"))

\* PivotApp.zoom(factor)
zoom(sc, pan, factor, cw, ch, wr) ==
  [scale |-> zoomScale(sc, factor),
   pan |-> constrainPan(zoomPan(pan, sc, zoomScale(sc, factor), cw, ch),
                        zoomScale(sc, factor), cw, ch, wr)]

\* fitToViewport: the scale before clamping
fitScale(cw, ch, wr) ==
  IF wr.w = Zero \/ wr.h = Zero THEN One
  ELSE MinOf(Over(Num(cw - fitPadding), wr.w), Over(Num(ch - fitPadding), wr.h))

\* "Center the content"
centred(sc, cw, ch, wr) ==
  Point(Half(Minus(Num(cw), Times(wr.w, sc))), Half(Minus(Num(ch), Times(wr.h, sc))))

\* contentWidth and contentHeight of fitToViewport: a wrapper without a style size
\* and without a box counts as large as the container
fitContent(cw, ch, wr) ==
  [w |-> IF wr.w = Zero THEN Num(cw) ELSE wr.w,
   h |-> IF wr.h = Zero THEN Num(ch) ELSE wr.h]

\* a fit that scales but leaves the content at the origin
fitAtOrigin(cw, ch, c) ==
  [scale |-> Clamp(fitScale(cw, ch, c), minScale("PivotApp"), maxScale("PivotApp")),
   pan |-> Origin]

\* fitToViewport over a content of size c
fitOver(cw, ch, c) ==
  [scale |-> Clamp(fitScale(cw, ch, c), minScale("PivotApp"), maxScale("PivotApp")),
   pan |-> centred(Clamp(fitScale(cw, ch, c), minScale("PivotApp"), maxScale("PivotApp")),
                   cw, ch, c)]

\* PivotApp.fitToViewport
fitToViewport(cw, ch, wr) == fitOver(cw, ch, fitContent(cw, ch, wr))

(* PivotViewer *)

\* PivotViewer.renderGrid: the grid's style width for a container cw wide
\* (thumbnailSize 60, gap 3, padding 10)
thumbnailSize == 60
gap == 3
viewerPadding == 10
gridWidth(cw) == ((cw - viewerPadding * 2) \div (thumbnailSize + gap)) * (thumbnailSize + gap)

\* PivotViewer.zoom(factor): nothing happens when scale * factor is out of range
viewerZoom(sc, tr, factor, cw, ch) ==
  IF Leq(minScale("PivotViewer"), Times(sc, factor))
     /\ Leq(Times(sc, factor), maxScale("PivotViewer"))
  THEN [scale |-> Times(sc, factor),
        pan |-> Point(Plus(tr.x, Times(Minus(Ratio(cw, 2), tr.x), Minus(One, factor))),
                      Plus(tr.y, Times(Minus(Ratio(ch, 2), tr.y), Minus(One, factor))))]
  ELSE [scale |-> sc, pan |-> tr]

\* the wheel handler of PivotViewer.setupPanZoom with the mouse at m
viewerWheelTo(sc, tr, newScale, m) ==
  IF newScale # sc
  THEN [scale |-> newScale,
        pan |-> Point(towards(m.x, tr.x, Over(newScale, sc)),
                      towards(m.y, tr.y, Over(newScale, sc)))]
  ELSE [scale |-> sc, pan |-> tr]

viewerWheel(sc, tr, factor, m) ==
  viewerWheelTo(sc, tr, Clamp(Times(sc, factor), minScale("PivotViewer"),
                              maxScale("PivotViewer")), m)

\* PivotViewer.fitToViewport: the new scale; gridRect is the box measured at the
\* scale in force, gridRect.width / this.scale the unscaled width
viewerFitScale(sc, cw, ch, gridRect) ==
  MaxOf(MinOf(MinOf(Over(Num(cw - fitPadding), Over(gridRect.w, sc)),
                    Over(Num(ch - fitPadding), Over(gridRect.h, sc))),
              maxFitScale),
        minScale("PivotViewer"))

\* "Center the grid": scaledWidth = (gridRect.width / this.scale) * this.scale
\* with the new scale, then Math.max(0, .)
viewerCentre(newScale, cw, ch, gridRect) ==
  Point(MaxOf(Zero, Half(Minus(Num(cw), Times(Over(gridRect.w, newScale), newScale)))),
        MaxOf(Zero, Half(Minus(Num(ch), Times(Over(gridRect.h, newScale), newScale)))))

\* getBoundingClientRect of the grid at scale sc
gridRectAt(g, sc) == [w |-> Times(g.w, sc), h |-> Times(g.h, sc)]

viewerFitToViewport(sc, cw, ch, g) ==
  [scale |-> viewerFitScale(sc, cw, ch, gridRectAt(g, sc)),
   pan |-> viewerCentre(viewerFitScale(sc, cw, ch, gridRectAt(g, sc)), cw, ch,
                        gridRectAt(g, sc))]

\* the fields of both viewers after their constructors
InitView ==
  /\ page = "PivotApp"
  /\ scale = One
  /\ panOffset = Origin
  /\ isPanning = FALSE
  /\ panStart = Origin
  /\ wrapper = [w |-> Zero, h |-> Zero]
  /\ fitTimer = FALSE
  /\ flipPending = FALSE
  /\ translate = Origin
  /\ isDragging = FALSE
  /\ dragStart = Origin
  /\ lastTranslate = Origin
  /\ grid = [w |-> Zero, h |-> Zero]
  /\ viewLog = [op |-> "none", factor |-> One, scale |-> One, pan |-> Origin,
                press |-> [at |-> Origin, from |-> Origin]]
  /\ viewOps = 0

(* ---------------------------- initialization --------------------------- *)

\* generateSampleAds(1000) of loadSampleData
SampleAds == 1000

\* the synchronous calls init() makes after the load, in order
initCalls(p) ==
  CASE p = "PivotApp" ->
         <<"setupFilters", "setupControls", "setupKeyboard", "createItems", "applyLayout">>
    [] p = "PivotViewer" ->
         <<"setupFilters", "setupZoomControls", "setupPanZoom", "setupKeyboard",
           "setupDetailPanel", "renderGrid">>
    [] p = "AdViewerDZI" -> <<"initViewer", "setupFilters", "setupKeyboard">>
    [] OTHER ->
         <<"initViewer", "populateFilterOptions", "setupFilters", "setupControls",
           "applyFilters">>

\* fetch() rejected, or response.json() rejected: the body of a 404 page and an
\* invalid body are not JSON
Unparsed(r) == r.kind \in {"rejected", "notFound", "invalid"}

\* PivotApp.loadData: what the try block leaves, or the catch
loadData(r) ==
  IF Unparsed(r) THEN [ads |-> 0, fields |-> FALSE, errors |-> 1]
  ELSE [ads |-> IF r.kind = "object" THEN r.n ELSE 0, fields |-> TRUE, errors |-> 0]

\* PivotViewer.loadData assigns ads, filteredAds, verticals and verticalCounts the
\* same way
viewerLoadData(r) ==
  IF Unparsed(r) THEN [ads |-> 0, fields |-> FALSE, errors |-> 1]
  ELSE [ads |-> IF r.kind = "object" THEN r.n ELSE 0, fields |-> TRUE, errors |-> 0]

\* AdViewer.loadMetadata: metadata is assigned before the console.log that reads
\* metadata.gridSize.cols, which an array does not have
loadMetadata(r) ==
  IF Unparsed(r) THEN [ads |-> 0, fields |-> FALSE, errors |-> 1]
  ELSE IF r.kind = "object" THEN [ads |-> r.n, fields |-> TRUE, errors |-> 0]
  ELSE [ads |-> 0, fields |-> TRUE, errors |-> 1]

\* AdViewer.loadAdData: loadedAds.map needs an array; the catch calls
\* loadSampleData()
loadAdData(r) ==
  IF r.kind = "array" THEN [ads |-> r.n, fields |-> TRUE, errors |-> 0]
  ELSE [ads |-> SampleAds, fields |-> TRUE, errors |-> 1]

loadOf(p, r) ==
  CASE p = "PivotApp" -> loadData(r)
    [] p = "PivotViewer" -> viewerLoadData(r)
    [] p = "AdViewerDZI" -> loadMetadata(r)
    [] OTHER -> loadAdData(r)

\* the index in initCalls of the call that throws, or 0: Object.entries(undefined)
\* in PivotApp.setupFilters, this.verticals.forEach in PivotViewer.setupFilters
\* after it found its container
throwsAt(p, fields, box) ==
  CASE p = "PivotApp" -> IF fields THEN 0 ELSE 1
    [] p = "PivotViewer" -> IF box /\ ~fields THEN 1 ELSE 0
    [] OTHER -> 0

\* the calls that returned
returned(p, at) ==
  {initCalls(p)[i] : i \in 1..(IF at = 0 THEN Len(initCalls(p)) ELSE at - 1)}

\* setupFilters / populateFilterOptions reached the end of its population loop
populated(p, fields, box) ==
  CASE p = "AdViewerDZI" -> box /\ fields
    [] p = "AdViewerSample" -> box
    [] OTHER -> box /\ fields

\* the constructor of AdViewer and initViewer(): an empty world, nothing requested
InitWorld ==
  /\ world = {}
  /\ loading = {}
  /\ removals = {}
  /\ requested = 0

\* the constructor of PivotApp: no item selected, the panel closed and untouched
InitDetail ==
  /\ detailOpen = FALSE
  /\ selectedIndex = -1
  /\ detailShown = 0
  /\ panelDisplay = ""
  /\ slides = <<>>
  /\ lastFinish = [kind |-> "none", superseded |-> FALSE]

\* the fields of a viewer whose init() has run to its end over the loaded manifest
InitLoaded ==
  /\ response = [kind |-> "object", n |-> NumAds]
  /\ initAt = "done"
  /\ ads = NumAds
  /\ dataFields = TRUE
  /\ errors = 0
  /\ steps = returned("PivotApp", 0)
  /\ filterOptions = TRUE
  /\ loadingHidden = TRUE
  /\ uncaught = "none"
  /\ filterBox = TRUE

InitAnimator ==
  /\ anims = <<>>
  /\ runningAnimations = {}
  /\ calls = <<>>
  /\ microQ = <<>>
  /\ finishQ = <<>>
  /\ flipLog = <<>>

\* loadData: filteredAds = [...this.ads]; the constructor's defaults
InitApp ==
  /\ activeFilters = [f \in Fields |-> <<>>]
  /\ filteredAds = [i \in 1..NumAds |-> i]
  /\ currentSortBy = "size"
  /\ currentSortOrder = "asc"
  /\ currentGroupBy = ""
  /\ groupByValue = ""
  /\ userSetGroup = FALSE
  /\ changes = 0

InitLayout ==
  /\ containerW = 440
  /\ containerH = 340
  /\ layoutN = 0
  /\ layoutGroups = <<>>
  /\ layoutOut = [kind |-> "none"]

InitAnim ==
  /\ InitAnimator
  /\ InitView
  /\ InitLoaded
  /\ InitDetail
  /\ InitWorld
  /\ InitApp
  /\ InitLayout
  /\ hidden = [e \in Elements |-> "unset"]
  /\ display = [e \in Elements |-> ""]
  /\ rect = [e \in Elements |-> RBase]

\* animator.cancelAll() called by a client
CancelAllCall ==
  /\ Idle
  /\ Install(cancelAll(Cur))
  /\ UNCHANGED <<finishQ, rect>>
  /\ UNCHANGED appVars
  /\ UNCHANGED layoutVars
  /\ UNCHANGED viewVars
  /\ UNCHANGED bootVars
  /\ UNCHANGED detailVars
  /\ UNCHANGED worldVars

NextAnim ==
  \/ /\ Room(1, MaxDirectCalls)
     /\ \E els \in SUBSET AnimEls : \E after \in Layouts(els, CoarseRects) :
          FlipCall(els, after)
  \/ /\ Room(1, MaxDirectCalls)
     /\ \E els \in SUBSET AnimEls \ {{}} : \E remove \in BOOLEAN : FadeOutCall(els, remove)
  \/ /\ Room(1, MaxDirectCalls)
     /\ \E els \in SUBSET AnimEls \ {{}} : FadeInCall(els)
  \/ /\ Room(2, MaxDirectCalls)
     /\ \E visible \in SUBSET AnimEls : \E after \in Layouts(visible, CoarseRects) :
          AnimateFilterCall(visible, after)
  \/ \E B \in SUBSET Playing : FinishFrame(B)
  \/ \E after \in [Elements -> CoarseRects] : RunOnComplete(after, CoarseRects)
  \/ DispatchFinish
  \/ CancelAllCall

SpecAnim == InitAnim /\ [][NextAnim]_vars

(* --------------------------- PivotApp ---------------------------------- *)

\* PivotApp.applyFilters with the allow-lists filters
ApplyFilters(filters) ==
  LET matchingIds == {i \in Elements : Matches(Ads[i], filters)}
      fa == sortAds(filterAds(matchingIds), currentSortBy, currentSortOrder)
      autoGroup == Len(filters["vertical"]) > 0 /\ currentGroupBy = ""
      autoUngroup == /\ ~autoGroup
                     /\ Len(filters["vertical"]) = 0
                     /\ groupByValue = "vertical"
                     /\ ~userSetGroup
      groupBy == IF autoGroup THEN "vertical" ELSE IF autoUngroup THEN "" ELSE currentGroupBy
      toHide == {e \in Elements :
                   hidden[e] # "true" /\ display[e] # "none" /\ e \notin matchingIds}
      S1 == [Cur EXCEPT
               !.hidden = [e \in Elements |-> IF e \in matchingIds THEN "false" ELSE "true"],
               !.display = [e \in Elements |-> IF e \in matchingIds THEN "" ELSE @[e]]]
      R == animateChange(S1, rect, toHide, fa, groupBy, containerW, containerH, changes + 1)
  IN /\ Idle
     /\ activeFilters' = filters
     /\ filteredAds' = fa
     /\ currentGroupBy' = groupBy
     /\ groupByValue' = IF autoGroup THEN "vertical" ELSE IF autoUngroup THEN "" ELSE groupByValue
     /\ changes' = changes + 1
     /\ rect' = R.boxes
     /\ Install(R.S)
     /\ UNCHANGED <<finishQ, currentSortBy, currentSortOrder, userSetGroup>>
     /\ UNCHANGED layoutVars
     /\ UNCHANGED viewVars
  /\ UNCHANGED bootVars
  /\ UNCHANGED detailVars
  /\ UNCHANGED worldVars

\* PivotApp.handleFilterChange(field, value, checked)
HandleFilterChange(field, value, checked) ==
  ApplyFilters([activeFilters EXCEPT
                  ![field] = IF checked THEN pushIfAbsent(@, value) ELSE without(@, value)])

\* PivotApp.clearAllFilters
ClearAllFilters ==
  LET fa == sortAds([i \in 1..NumAds |-> i], currentSortBy, currentSortOrder)
      hiddenItems == {e \in Elements : hidden[e] = "true"}
      R == IF hiddenItems # {}
           THEN WithBoxes(fadeIn(Cur, SetToSeq(hiddenItems), "fadeInDone", {}, 0), rect)
           ELSE animateLayoutChange(Cur, rect, fa, currentGroupBy, containerW, containerH, 0)
  IN /\ Idle
     /\ activeFilters' = [f \in Fields |-> <<>>]
     /\ filteredAds' = fa
     /\ rect' = R.boxes
     /\ Install(R.S)
     /\ UNCHANGED <<finishQ, currentSortBy, currentSortOrder, currentGroupBy,
                    groupByValue, userSetGroup, changes>>
     /\ UNCHANGED layoutVars
     /\ UNCHANGED viewVars
  /\ UNCHANGED bootVars
  /\ UNCHANGED detailVars
  /\ UNCHANGED worldVars

\* the change handlers of the sort-by and sort-order boxes
SortChange(field, sortOrder) ==
  LET fa == sortAds(filteredAds, field, sortOrder)
      R == animateLayoutChange(Cur, rect, fa, currentGroupBy, containerW, containerH, 0)
  IN /\ Idle
     /\ currentSortBy' = field
     /\ currentSortOrder' = sortOrder
     /\ filteredAds' = fa
     /\ rect' = R.boxes
     /\ Install(R.S)
     /\ UNCHANGED <<finishQ, activeFilters, currentGroupBy, groupByValue, userSetGroup,
                    changes>>
     /\ UNCHANGED layoutVars
     /\ UNCHANGED viewVars
  /\ UNCHANGED bootVars
  /\ UNCHANGED detailVars
  /\ UNCHANGED worldVars

SortByChange(field) == field # currentSortBy /\ SortChange(field, currentSortOrder)

SortOrderChange(sortOrder) ==
  sortOrder # currentSortOrder /\ SortChange(currentSortBy, sortOrder)

\* the change handler of the group-by box
GroupByChange(groupBy) ==
  LET R == animateLayoutChange(Cur, rect, filteredAds, groupBy, containerW, containerH, 0)
  IN /\ Idle
     /\ groupBy # groupByValue
     /\ currentGroupBy' = groupBy
     /\ groupByValue' = groupBy
     /\ userSetGroup' = (groupBy # "")
     /\ rect' = R.boxes
     /\ Install(R.S)
     /\ UNCHANGED <<finishQ, activeFilters, filteredAds, currentSortBy, currentSortOrder,
                    changes>>
     /\ UNCHANGED layoutVars
     /\ UNCHANGED viewVars
  /\ UNCHANGED bootVars
  /\ UNCHANGED detailVars
  /\ UNCHANGED worldVars

\* init: createItems() and applyLayout() over the loaded ads
InitPivotApp ==
  /\ InitAnimator
  /\ InitView
  /\ InitLoaded
  /\ InitDetail
  /\ InitWorld
  /\ InitApp
  /\ InitLayout
  /\ hidden = [e \in Elements |-> "unset"]
  /\ display = [e \in Elements |-> ""]
  /\ rect = applyLayout([e \in Elements |-> RZero], [e \in Elements |-> "unset"],
                        [i \in 1..NumAds |-> i], "", 440, 340)

NextApp ==
  \/ /\ Room(2, MaxAppCalls)
     /\ \E f \in Fields : \E v \in FilterValues(f) : \E checked \in BOOLEAN :
          HandleFilterChange(f, v, checked)
  \/ /\ Room(2, MaxAppCalls)
     /\ ClearAllFilters
  \/ /\ Room(1, MaxAppCalls)
     /\ \E f \in SortFields : SortByChange(f)
  \/ /\ Room(1, MaxAppCalls)
     /\ \E o \in {"asc", "desc"} : SortOrderChange(o)
  \/ /\ Room(1, MaxAppCalls)
     /\ \E g \in {"", "vertical"} : GroupByChange(g)
  \/ \E B \in SUBSET Playing : FinishFrame(B)
  \/ RunOnComplete(rect, {})
  \/ DispatchFinish

SpecApp == InitPivotApp /\ [][NextApp]_vars

(* ---------------------- the layout engines alone ----------------------- *)

\* visible items laid out at once
MaxItems == 12
\* groups laid out at once
MaxGroups == 3
\* items in one group
MaxGroupSize == 3

\* client sizes of the grid container
ContainerSizes == {0, 40, 140, 240, 340, 440, 640}

\* applyLayout with no group key: the uniform grid over n visible items
GridLayoutStep(n) ==
  /\ n \in 1..MaxItems
  /\ layoutN' = n
  /\ layoutGroups' = <<>>
  /\ layoutOut' = applyGridLayout(n, containerW, containerH)
  /\ UNCHANGED <<containerW, containerH>>
  /\ UNCHANGED animVars
  /\ UNCHANGED appVars
  /\ UNCHANGED viewVars
  /\ UNCHANGED bootVars
  /\ UNCHANGED detailVars
  /\ UNCHANGED worldVars

\* applyLayout with a group key: the grouped layout over the given groups
GroupedLayoutStep(sizes) ==
  /\ Len(sizes) >= 1
  /\ layoutGroups' = sizes
  /\ layoutN' = 0
  /\ layoutOut' = applyGroupedLayout(sizes, containerW)
  /\ UNCHANGED <<containerW, containerH>>
  /\ UNCHANGED animVars
  /\ UNCHANGED appVars
  /\ UNCHANGED viewVars
  /\ UNCHANGED bootVars
  /\ UNCHANGED detailVars
  /\ UNCHANGED worldVars

\* window resize: applyLayout() runs again in the new container
Resize(w, h) ==
  /\ containerW' = w
  /\ containerH' = h
  /\ layoutOut' = IF layoutOut.kind = "grid" THEN applyGridLayout(layoutN, w, h)
                  ELSE IF layoutOut.kind = "grouped" THEN applyGroupedLayout(layoutGroups, w)
                  ELSE layoutOut
  /\ UNCHANGED <<layoutN, layoutGroups>>
  /\ UNCHANGED animVars
  /\ UNCHANGED appVars
  /\ UNCHANGED viewVars
  /\ UNCHANGED bootVars
  /\ UNCHANGED detailVars
  /\ UNCHANGED worldVars

GroupSizes == UNION {[1..k -> 1..MaxGroupSize] : k \in 1..MaxGroups}

InitLayoutOnly ==
  /\ InitAnimator
  /\ InitView
  /\ InitLoaded
  /\ InitDetail
  /\ InitWorld
  /\ InitApp
  /\ hidden = [e \in Elements |-> "unset"]
  /\ display = [e \in Elements |-> ""]
  /\ rect = [e \in Elements |-> RBase]
  /\ containerW \in ContainerSizes
  /\ containerH \in ContainerSizes
  /\ layoutN = 0
  /\ layoutGroups = <<>>
  /\ layoutOut = [kind |-> "none"]

NextLayout ==
  \/ \E n \in 1..MaxItems : GridLayoutStep(n)
  \/ \E sizes \in GroupSizes : GroupedLayoutStep(sizes)
  \/ \E w \in ContainerSizes : \E h \in ContainerSizes : Resize(w, h)

SpecLayout == InitLayoutOnly /\ [][NextLayout]_vars

(* ----------------------- animator properties --------------------------- *)

\* the registry entries of element e
Entries(m, e) == {p \in m : p[1] = e}

\* the animations created by the current step
NewAnims == (Len(anims) + 1)..Len(anims')

\* C1: the registry holds at most one entry per element, and a step that starts
\* an animation on an element cancels the animation registered for it before and
\* leaves exactly one entry for the element, the animation just started.
C1_OneEntryPerElement ==
  [][/\ \A e \in Elements : Cardinality(Entries(runningAnimations', e)) <= 1
     /\ \A id \in NewAnims :
          LET e == anims'[id].el IN
          /\ Entries(runningAnimations', e) = {<<e, id>>}
          /\ MapHas(runningAnimations, e) =>
               /\ MapGet(runningAnimations, e) # id
               /\ anims'[MapGet(runningAnimations, e)].state = "idle"]_vars

\* a second animation was started on an element while the first was registered
\* and still playing: the first is cancelled and the second is the entry
C1_Witness ==
  \E a, b \in 1..Len(anims) :
    /\ a < b
    /\ anims[a].el = anims[b].el
    /\ anims[a].state = "idle"
    /\ calls[anims[a].call].status = "rejected"
    /\ <<anims[b].el, b>> \in runningAnimations

\* every animation the call started has ended (finished or cancelled)
AllEnded(c) == \A id \in calls[c].anims : anims[id].state # "running"

\* C2: a call that started at least one animation invokes onComplete exactly
\* once, and only after every animation it started has ended: never twice, never
\* while one of its animations plays, and once all have ended and the queued
\* reactions have run it has been invoked.
C2_OnCompleteExactlyOnce ==
  \A c \in 1..Len(calls) :
    calls[c].anims # {} =>
      /\ calls[c].completeCount <= 1
      /\ calls[c].completeCount = 1 => AllEnded(c)
      /\ (AllEnded(c) /\ Idle) => calls[c].completeCount = 1

\* the claim's condition on the two measurements of one element
BelowThreshold(first, last) ==
  \/ first = last
  \/ /\ Abs(first.x - last.x) < HalfPixel
     /\ Abs(first.y - last.y) < HalfPixel
     /\ last.w # 0 /\ 100 * Abs(first.w - last.w) < last.w
     /\ last.h # 0 /\ 100 * Abs(first.h - last.h) < last.h
     /\ Abs(first.op - last.op) < OpacityStep

\* C3: a flip whose elements all measure the same before and after the layout
\* change (or differ by less than the thresholds) starts no animation, leaves the
\* registry and every animation as they were, and its onComplete is queued.
C3_NoMovementNoAnimation ==
  [][(/\ Len(calls') = Len(calls) + 1
      /\ calls'[Len(calls')].kind = "flip"
      /\ \A e \in calls'[Len(calls')].elements :
           BelowThreshold(Measured(display, rect, e), Measured(display', rect', e)))
     => /\ Len(anims') = Len(anims)
        /\ \A id \in 1..Len(anims) : anims'[id].state = anims[id].state
        /\ runningAnimations' = runningAnimations
        /\ Len(calls') \in Range(microQ')]_vars

\* the positions in the log of the events of one kind for element e
LogAt(ev, e) == {i \in 1..Len(flipLog) : flipLog[i].ev = ev /\ flipLog[i].el = e}

\* the most recent flip call
LastFlip == CHOOSE c \in 1..Len(calls) :
              /\ calls[c].kind = "flip"
              /\ \A d \in 1..Len(calls) : calls[d].kind = "flip" => d <= c

\* C4: within one flip call the First geometry of every element is captured,
\* then layoutChange runs exactly once, then the Last geometry is read and the
\* animations are started: no Last read and no animation start precedes the
\* layout change, no First capture follows it, and an element's animation starts
\* only after its own Last geometry was read.
C4_FlipOrder ==
  flipLog # <<>> =>
    LET layoutAt == LogAt("layout", 0)
        els == calls[LastFlip].elements
    IN /\ Cardinality(layoutAt) = 1
       /\ \A e \in els :
            /\ Cardinality(LogAt("first", e)) = 1
            /\ Cardinality(LogAt("last", e)) = 1
            /\ Cardinality(LogAt("start", e)) <= 1
            /\ \A i \in LogAt("first", e) : \A k \in layoutAt : i < k
            /\ \A i \in LogAt("last", e) : \A k \in layoutAt : k < i
            /\ \A i \in LogAt("start", e) :
                 /\ \A k \in layoutAt : k < i
                 /\ \A j \in LogAt("last", e) : j < i
       /\ \A i \in 1..Len(flipLog) :
            flipLog[i].ev = "layout" \/ flipLog[i].el \in els

\* a flip over several elements that started animations on at least two of them
C4_Witness ==
  /\ flipLog # <<>>
  /\ Cardinality({i \in 1..Len(flipLog) : flipLog[i].ev = "start"}) >= 2
  /\ Cardinality({i \in 1..Len(flipLog) : flipLog[i].ev = "first"}) >= 3

\* C5: for one filter change, the FLIP pass is started only after every
\* fade-out animation started for that change has finished: whenever the flip
\* call of a change exists, no fade-out animation of that change is playing and
\* the fade-out batch has resolved.
C5_FadeBeforeFlip ==
  \A f \in 1..Len(calls) :
    (calls[f].kind = "flip" /\ calls[f].change > 0) =>
      \A id \in 1..Len(anims) :
        (anims[id].kind = "fadeOut" /\ calls[anims[id].call].change = calls[f].change)
          => /\ anims[id].state # "running"
             /\ calls[anims[id].call].status = "resolved"
             /\ anims[id].call < f

\* the FLIP pass of a change is playing after the fade-out of that change
C5_Witness ==
  \E f \in 1..Len(calls) : \E id, k \in 1..Len(anims) :
    /\ calls[f].kind = "flip" /\ calls[f].change > 0
    /\ anims[id].kind = "fadeOut" /\ calls[anims[id].call].change = calls[f].change
    /\ anims[k].call = f /\ anims[k].state = "running"

(* ------------------- filter and sort properties ------------------------ *)

\* the ad passes the allow-lists: AND across fields, OR within one list, an empty
\* list imposes nothing
Passes(ad, filters) ==
  \A f \in Fields : filters[f] = <<>> \/ \E i \in 1..Len(filters[f]) : filters[f][i] = ad[f]

\* the elements of the items that pass the allow-lists
Matching(filters) == {e \in Elements : Passes(Ads[e], filters)}

\* the items shown: neither removed from display nor marked hidden
Displayed == {e \in Elements : display[e] # "none" /\ hidden[e] # "true"}

\* C6: when a filter change makes the displayed items H fail the filters,
\* fadeOut is invoked with exactly H; the FLIP pass that follows the fade-out
\* runs over exactly the elements of the matching items; and the Visible Set has
\* as many entries as there are matching items.
C6_FilterScenario ==
  [][/\ changes' = changes + 1 =>
          LET H == Displayed \ Matching(activeFilters') IN
          /\ Len(filteredAds') = Cardinality(Matching(activeFilters'))
          /\ H # {} =>
               /\ Len(calls') = Len(calls) + 1
               /\ calls'[Len(calls')].kind = "fadeOut"
               /\ calls'[Len(calls')].elements = H
     /\ (microQ # <<>> /\ calls[Head(microQ)].cont = "fadeOutDone") =>
          /\ Len(calls') = Len(calls) + 1
          /\ calls'[Len(calls')].kind = "flip"
          /\ calls'[Len(calls')].elements = Matching(activeFilters)]_vars

\* no value occurs twice in the sequence
NoDuplicates(sq) == \A i, j \in 1..Len(sq) : sq[i] = sq[j] => i = j

\* C7: the Visible Set holds exactly the items that pass every non-empty
\* allow-list, each once, and no allow-list holds a value twice.
C7_VisibleSetMatchesFilters ==
  /\ Range(filteredAds) = Matching(activeFilters)
  /\ NoDuplicates(filteredAds)
  /\ \A f \in Fields : NoDuplicates(activeFilters[f])

\* two allow-lists are in force, one of them with two values, and some but not
\* all items pass
C7_Witness ==
  /\ \A f \in Fields : activeFilters[f] # <<>>
  /\ \E f \in Fields : Len(activeFilters[f]) = 2
  /\ filteredAds # <<>>
  /\ Len(filteredAds) < NumAds

\* C8: the order of the Visible Set is that of the items passing the filters,
\* sorted by the active key and direction with the manifest's order deciding
\* ties, whatever keys and directions were active before.
C8_OrderFromSortKeyOnly ==
  filteredAds = sortAds(filterAds(Matching(activeFilters)), currentSortBy, currentSortOrder)

(* ------------------------ layout properties ---------------------------- *)

RECURSIVE MaxOver(_, _)
\* the largest of f[1..k], 0 when k = 0
MaxOver(f, k) == IF k = 0 THEN 0 ELSE Max(f[k], MaxOver(f, k - 1))

\* the height of the stack of every group of a grouped layout
StackHeights(o) ==
  [g \in 1..Len(o.sizes) |-> CeilDiv(o.sizes[g], o.cols) * (baseHeight + itemGap)]

\* C9: in the grouped layout every group label is placed at the same y, the
\* height of the tallest stack plus the label margin; the bottom edge of every
\* group's item block (the bottom of its last item) lies on one baseline directly
\* above the label row; no item is placed at a negative y.
C9_GroupedBaseline ==
  layoutOut.kind = "grouped" =>
    LET o == layoutOut
        tallest == MaxOver(StackHeights(o), Len(o.sizes))
    IN \A g \in 1..Len(o.sizes) :
         LET grp == o.groups[g]
             lastItem == grp.items[grp.count]
         IN /\ grp.labelTop = tallest + labelMargin
            /\ lastItem.y + lastItem.h = tallest
            /\ grp.stackTopY + grp.blockHeight = tallest
            /\ \A h \in 1..Len(o.sizes) : o.groups[h].labelTop = grp.labelTop
            /\ \A i \in 1..grp.count : grp.items[i].y >= 0

\* a grouped layout of several groups whose stacks differ in height
C9_Witness ==
  /\ layoutOut.kind = "grouped"
  /\ \E g, h \in 1..Len(layoutOut.sizes) :
       layoutOut.groups[g].rows < layoutOut.groups[h].rows

\* the cell size of a candidate lies in the admissible range [30, 200]
InRange(c) == c.num >= minCell * c.den /\ c.num <= maxCell * c.den

\* the candidates of a grid layout o whose cell size is admissible
AdmissibleCols(o) ==
  {c \in 1..o.n : InRange(Candidate(o.n, o.cw, o.ch, c))}

\* the column count chosen by o is the first of the least wasteful admissible ones,
\* and the rows that hold items are ceil(N / cols)
ChosenIsBest(o) ==
  LET chosen == Candidate(o.n, o.cw, o.ch, o.cols) IN
  /\ InRange(chosen)
  /\ \A c \in AdmissibleCols(o) :
       LET k == Candidate(o.n, o.cw, o.ch, c) IN
       /\ chosen.waste * k.den <= k.waste * chosen.den
       /\ chosen.waste * k.den = k.waste * chosen.den => o.cols <= c
  /\ o.items[o.n].row + 1 = CeilDiv(o.n, o.cols)

\* C10 as claimed: for every N >= 1 and every container size the chosen column
\* count has an admissible cell size, wastes no more than any other admissible
\* column count, is the lowest among equally good ones, and the rows used are
\* ceil(N / cols).
C10_Original == layoutOut.kind = "grid" => ChosenIsBest(layoutOut)

\* C10 amended: the same, whenever some column count in [1, N] is admissible;
\* when none is, the layout falls back to a single column of 60 px cells, and the
\* rows used are still ceil(N / cols).
C10_BestAdmissible ==
  layoutOut.kind = "grid" =>
    IF AdmissibleCols(layoutOut) # {}
    THEN ChosenIsBest(layoutOut)
    ELSE /\ layoutOut.cols = 1
         /\ layoutOut.cellSize = defaultCell
         /\ layoutOut.items[layoutOut.n].row + 1 = CeilDiv(layoutOut.n, layoutOut.cols)

\* a grid in which a higher column count wastes exactly as much as the chosen one
C10_Witness ==
  /\ layoutOut.kind = "grid"
  /\ layoutOut.found
  /\ \E c \in AdmissibleCols(layoutOut) :
       LET k == Candidate(layoutOut.n, layoutOut.cw, layoutOut.ch, c) IN
       c > layoutOut.cols /\ layoutOut.waste * k.den = k.waste * layoutOut.den

\* the scenario of 12 visible items in a layout area of 400 x 300
Scenario12 ==
  /\ layoutOut.kind = "grid"
  /\ layoutOut.n = 12
  /\ layoutOut.cw = 400
  /\ layoutOut.ch = 300

\* C11 as claimed: with 12 visible items in a layout area of 400 x 300 the grid
\* has 4 columns and 3 rows of cells of size 100 and wastes no space.
C11_Original ==
  Scenario12 =>
    /\ layoutOut.cols = 4
    /\ layoutOut.bestRows = 3
    /\ layoutOut.cellSize = 100
    /\ layoutOut.waste = 0

\* C11 amended: with 12 visible items in a layout area of 400 x 300 the grid has
\* 4 columns and 3 rows; the 4 px gaps between the cells leave a cell size of
\* (400 - 3 * 4) / 4 = 97 and a wasted space of 1 px (the height: 3 * 97 + 8 = 299).
C11_Grid12 ==
  Scenario12 =>
    /\ layoutOut.cols = 4
    /\ layoutOut.bestRows = 3
    /\ layoutOut.num = 97 * layoutOut.den
    /\ layoutOut.cellSize = 97
    /\ layoutOut.waste = 1 * layoutOut.den
    /\ layoutOut.items[12].col = 3 /\ layoutOut.items[12].row = 2

\* the scenario has been laid out
C11_Witness == Scenario12 /\ layoutOut.found

(* ------------------------ viewport specification ----------------------- *)

\* viewport operations in one behaviour
MaxViewOps == 3

\* zoom(factor) is called with 1.2 and 0.8 by the buttons and keys of PivotApp and
\* with 1.3 and 0.7 by those of PivotViewer; 1, 4 and 1/4 are further arguments
ZoomFactors(p) ==
  IF p = "PivotApp" THEN {One, Ratio(6, 5), Ratio(4, 5), Num(4), Ratio(1, 4)}
  ELSE {One, Ratio(13, 10), Ratio(7, 10), Num(4), Ratio(1, 4)}

\* wheel events: deltaX, deltaY
WheelDeltas == {<<0, 100>>, <<0, -100>>, <<50, 0>>}

\* client sizes of the grid container
ViewportSizes == {<<0, 0>>, <<440, 340>>, <<640, 240>>}

\* numbers of groups the visible items fall into; 0: no group key
GroupCounts == {0, 1, 2}

\* numbers of visible items after a filter change
VisibleCounts == {0, 1, MaxItems}

\* mouse positions (clientX, clientY, relative to the container): where the
\* button goes down, and where the mouse is when it moves or the wheel turns
PressAt == {Point(Num(100), Num(50))}
Mice == {Point(Num(0), Num(0)), Point(Num(150), Num(50))}

\* PivotViewer: rows of thumbnails in the grid
GridRows == {1, 3}

appFields == <<panOffset, isPanning, panStart, wrapper, fitTimer, flipPending>>
viewerFields == <<translate, isDragging, dragStart, lastTranslate, grid>>

NoLog ==
  [op |-> "none", factor |-> One, scale |-> One, pan |-> Origin,
   press |-> [at |-> Origin, from |-> Origin]]

\* the operation made and the scale and translation it started from; press keeps
\* where the mouse button last went down on the background and the translation then
Logged(op, f) ==
  [op |-> op, factor |-> f, scale |-> scale,
   pan |-> IF page = "PivotApp" THEN panOffset ELSE translate,
   press |-> viewLog.press]

\* one more viewport operation
Count ==
  /\ viewOps < MaxViewOps
  /\ viewOps' = viewOps + 1

OutsideView ==
  /\ UNCHANGED page
  /\ UNCHANGED bootVars
  /\ UNCHANGED detailVars
  /\ UNCHANGED worldVars
  /\ UNCHANGED animVars
  /\ UNCHANGED appVars

\* PivotApp writes scale and panOffset
SetApp(r, op, f) ==
  /\ scale' = r.scale
  /\ panOffset' = r.pan
  /\ viewLog' = Logged(op, f)
  /\ UNCHANGED viewerFields
  /\ OutsideView

\* PivotViewer writes scale, translateX and translateY
SetViewer(r, op, f) ==
  /\ scale' = r.scale
  /\ translate' = r.pan
  /\ viewLog' = Logged(op, f)
  /\ UNCHANGED appFields
  /\ UNCHANGED layoutVars
  /\ UNCHANGED grid
  /\ OutsideView

\* zoom buttons, '+' and '-' keys: zoom(factor)
ZoomStep(f) ==
  /\ page = "PivotApp"
  /\ Count
  /\ SetApp(zoom(scale, panOffset, f, containerW, containerH, wrapper), "zoom", f)
  /\ UNCHANGED <<isPanning, panStart, wrapper, fitTimer, flipPending>>
  /\ UNCHANGED layoutVars

\* the wheel handler of PivotApp: vertical scroll zooms, horizontal scroll pans
WheelStep(dx, dy) ==
  /\ page = "PivotApp"
  /\ Count
  /\ IF Abs(dy) > Abs(dx)
     THEN SetApp(zoom(scale, panOffset, IF dy > 0 THEN Ratio(19, 20) ELSE Ratio(21, 20),
                      containerW, containerH, wrapper),
                 "zoom", IF dy > 0 THEN Ratio(19, 20) ELSE Ratio(21, 20))
     ELSE IF Abs(dx) > 0
          THEN SetApp([scale |-> scale,
                       pan |-> constrainPan(Point(Minus(panOffset.x, Num(dx)), panOffset.y),
                                            scale, containerW, containerH, wrapper)],
                      "scroll", One)
          ELSE SetApp([scale |-> scale, pan |-> panOffset], "wheel", One)
  /\ UNCHANGED <<isPanning, panStart, wrapper, fitTimer, flipPending>>
  /\ UNCHANGED layoutVars

\* the zoom-fit button
FitButton ==
  /\ page = "PivotApp"
  /\ Count
  /\ SetApp(fitToViewport(containerW, containerH, wrapper), "fit", One)
  /\ UNCHANGED <<isPanning, panStart, wrapper, fitTimer, flipPending>>
  /\ UNCHANGED layoutVars

\* the delayed fitToViewport() of init (two animation frames) and of applyFilters
\* (100 ms)
FitTimer ==
  /\ page = "PivotApp"
  /\ fitTimer
  /\ fitTimer' = FALSE
  /\ SetApp(fitToViewport(containerW, containerH, wrapper), "fit", One)
  /\ UNCHANGED <<isPanning, panStart, wrapper, flipPending, viewOps>>
  /\ UNCHANGED layoutVars

\* n items in k groups of sizes as equal as possible
EvenGroups(n, k) == [g \in 1..k |-> n \div k + (IF g <= n % k THEN 1 ELSE 0)]

\* the groups of n visible items while a group key is set (layoutGroups is not
\* empty): as many groups as before, but no more than items; with no item visible
\* layoutGroups keeps the groups laid out last
regrouped(n) ==
  IF layoutGroups = <<>> \/ n = 0 THEN layoutGroups
  ELSE EvenGroups(n, IF Len(layoutGroups) <= n THEN Len(layoutGroups) ELSE n)

\* applyLayout: the grouped layout when a group key is set, the uniform grid
\* otherwise
layoutOf(n, sizes, w, h) ==
  IF sizes = <<>> THEN applyGridLayout(n, w, h) ELSE applyGroupedLayout(sizes, w)

\* the end of applyGroupedLayout over no group at all: the wrapper gets the canvas
\* width, which the style takes unless it is negative, and the height of the labels
emptyGrouped(w, wr) ==
  [w |-> IF w - padding * 2 < 0 THEN wr.w ELSE Num(w - padding * 2),
   h |-> Num(labelHeight + labelMargin + padding)]

\* the layout of n visible items in a container of w x h, or the layout as it is
\* when nothing is visible
layoutFor(n, w, h) == IF n = 0 THEN layoutOut ELSE layoutOf(n, regrouped(n), w, h)

\* applyLayout(): the wrapper size it leaves
wrapperFor(n, w, h) ==
  IF n = 0 THEN (IF layoutGroups = <<>> THEN wrapper ELSE emptyGrouped(w, wrapper))
  ELSE updateContainerSize(layoutOf(n, regrouped(n), w, h), wrapper)

\* window resize: applyLayout(); fitToViewport()
WindowResize(w, h) ==
  /\ page = "PivotApp"
  /\ Count
  /\ containerW' = w
  /\ containerH' = h
  /\ layoutOut' = layoutFor(layoutN, w, h)
  /\ wrapper' = wrapperFor(layoutN, w, h)
  /\ SetApp(fitToViewport(w, h, wrapperFor(layoutN, w, h)), "fit", One)
  /\ layoutGroups' = regrouped(layoutN)
  /\ UNCHANGED <<isPanning, panStart, fitTimer, flipPending>>
  /\ UNCHANGED layoutN

\* a filter change that leaves n items visible: animateLayoutChange() runs
\* applyLayout() inside flip and setTimeout schedules fitToViewport()
LayoutChange(n) ==
  /\ page = "PivotApp"
  /\ Count
  /\ layoutN' = n
  /\ layoutOut' = layoutFor(n, containerW, containerH)
  /\ wrapper' = wrapperFor(n, containerW, containerH)
  /\ fitTimer' = TRUE
  /\ flipPending' = TRUE
  /\ SetApp([scale |-> scale, pan |-> panOffset], "layout", One)
  /\ layoutGroups' = regrouped(n)
  /\ UNCHANGED <<isPanning, panStart>>
  /\ UNCHANGED <<containerW, containerH>>

\* the group-by select box, with the visible items falling into k groups (k = 0: no
\* group key), and the sort boxes (k groups as before): animateLayoutChange() runs
\* applyLayout() inside flip; no fitToViewport() is scheduled
Regroup(k) ==
  /\ page = "PivotApp"
  /\ Count
  /\ layoutN >= 1
  /\ k <= layoutN
  /\ layoutGroups' = IF k = 0 THEN <<>> ELSE EvenGroups(layoutN, k)
  /\ layoutOut' = layoutOf(layoutN, IF k = 0 THEN <<>> ELSE EvenGroups(layoutN, k),
                           containerW, containerH)
  /\ wrapper' = updateContainerSize(
                  layoutOf(layoutN, IF k = 0 THEN <<>> ELSE EvenGroups(layoutN, k),
                           containerW, containerH), wrapper)
  /\ flipPending' = TRUE
  /\ SetApp([scale |-> scale, pan |-> panOffset], "layout", One)
  /\ UNCHANGED <<isPanning, panStart, fitTimer>>
  /\ UNCHANGED <<containerW, containerH, layoutN>>

\* onComplete of animateLayoutChange: updateContainerSize(); constrainPan().  The
\* flip ends 600 ms after its start, or at once when no item moved
FlipComplete ==
  /\ page = "PivotApp"
  /\ flipPending
  /\ flipPending' = FALSE
  /\ wrapper' = IF layoutN = 0 THEN wrapper ELSE updateContainerSize(layoutOut, wrapper)
  /\ SetApp([scale |-> scale,
             pan |-> constrainPan(panOffset, scale, containerW, containerH,
                                  IF layoutN = 0 THEN wrapper
                                  ELSE updateContainerSize(layoutOut, wrapper))],
            "constrain", One)
  /\ UNCHANGED <<isPanning, panStart, fitTimer, viewOps>>
  /\ UNCHANGED layoutVars

\* mousedown with the left button: over a grid item it starts nothing
MouseDown(m, onItem) ==
  /\ page = "PivotApp"
  /\ ~isPanning
  /\ Count
  /\ isPanning' = ~onItem
  /\ panStart' = IF onItem THEN panStart
                 ELSE Point(Minus(m.x, panOffset.x), Minus(m.y, panOffset.y))
  /\ viewLog' = IF onItem THEN Logged("press-item", One)
                ELSE [viewLog EXCEPT !.press = [at |-> m, from |-> panOffset]]
  /\ UNCHANGED <<scale, panOffset, wrapper, fitTimer, flipPending>>
  /\ UNCHANGED viewerFields
  /\ UNCHANGED layoutVars
  /\ OutsideView

\* mousemove: while panning the offset follows the mouse and is constrained
MouseMove(m) ==
  /\ page = "PivotApp"
  /\ Count
  /\ IF isPanning
     THEN SetApp([scale |-> scale,
                  pan |-> constrainPan(Point(Minus(m.x, panStart.x),
                                             Minus(m.y, panStart.y)),
                                       scale, containerW, containerH, wrapper)],
                 "pan", One)
     ELSE SetApp([scale |-> scale, pan |-> panOffset], "move", One)
  /\ UNCHANGED <<isPanning, panStart, wrapper, fitTimer, flipPending>>
  /\ UNCHANGED layoutVars

MouseUp ==
  /\ page = "PivotApp"
  /\ isPanning
  /\ isPanning' = FALSE
  /\ UNCHANGED <<scale, panOffset, panStart, wrapper, fitTimer, flipPending, viewLog,
                 viewOps>>
  /\ UNCHANGED viewerFields
  /\ UNCHANGED layoutVars
  /\ OutsideView

\* PivotViewer: zoom-in and zoom-out buttons
ViewerZoomStep(f) ==
  /\ page = "PivotViewer"
  /\ Count
  /\ SetViewer(viewerZoom(scale, translate, f, containerW, containerH), "zoom", f)
  /\ UNCHANGED <<isDragging, dragStart, lastTranslate>>

\* PivotViewer: wheel with the mouse at m; deltaY > 0 zooms out
ViewerWheelStep(dy, m) ==
  /\ page = "PivotViewer"
  /\ Count
  /\ SetViewer(viewerWheel(scale, translate,
                           IF dy > 0 THEN Ratio(9, 10) ELSE Ratio(11, 10), m),
               "wheel", IF dy > 0 THEN Ratio(9, 10) ELSE Ratio(11, 10))
  /\ UNCHANGED <<isDragging, dragStart, lastTranslate>>

\* PivotViewer: fit, reset and home buttons, and the delayed fit of init
ViewerFit ==
  /\ page = "PivotViewer"
  /\ Count
  /\ SetViewer(viewerFitToViewport(scale, containerW, containerH, grid), "fit", One)
  /\ UNCHANGED <<isDragging, dragStart, lastTranslate>>

\* PivotViewer: mousedown; over a thumbnail the handler returns at once
ViewerMouseDown(m, onItem) ==
  /\ page = "PivotViewer"
  /\ ~isDragging
  /\ Count
  /\ isDragging' = ~onItem
  /\ dragStart' = IF onItem THEN dragStart ELSE m
  /\ lastTranslate' = IF onItem THEN lastTranslate ELSE translate
  /\ viewLog' = IF onItem THEN Logged("press-item", One)
                ELSE [viewLog EXCEPT !.press = [at |-> m, from |-> translate]]
  /\ UNCHANGED <<scale, translate, grid>>
  /\ UNCHANGED appFields
  /\ UNCHANGED layoutVars
  /\ OutsideView

\* PivotViewer: mousemove; while dragging the translation follows the mouse
ViewerMouseMove(m) ==
  /\ page = "PivotViewer"
  /\ Count
  /\ IF isDragging
     THEN SetViewer([scale |-> scale,
                     pan |-> Point(Plus(lastTranslate.x, Minus(m.x, dragStart.x)),
                                   Plus(lastTranslate.y, Minus(m.y, dragStart.y)))],
                    "pan", One)
     ELSE SetViewer([scale |-> scale, pan |-> translate], "move", One)
  /\ UNCHANGED <<isDragging, dragStart, lastTranslate>>

ViewerMouseUp ==
  /\ page = "PivotViewer"
  /\ isDragging
  /\ isDragging' = FALSE
  /\ UNCHANGED <<scale, translate, dragStart, lastTranslate, grid, viewLog, viewOps>>
  /\ UNCHANGED appFields
  /\ UNCHANGED layoutVars
  /\ OutsideView

\* PivotViewer has no resize handler: the container changes, nothing else does
ViewerResize(w, h) ==
  /\ page = "PivotViewer"
  /\ Count
  /\ containerW' = w
  /\ containerH' = h
  /\ viewLog' = Logged("resize", One)
  /\ UNCHANGED <<scale, layoutN, layoutGroups, layoutOut>>
  /\ UNCHANGED appFields
  /\ UNCHANGED viewerFields
  /\ OutsideView

\* PivotApp after init has run applyLayout(): the first fitToViewport() is
\* scheduled
InitViewApp ==
  /\ page = "PivotApp"
  /\ \E c \in ViewportSizes : \E n \in VisibleCounts \ {0} :
       /\ containerW = c[1]
       /\ containerH = c[2]
       /\ layoutN = n
       /\ layoutOut = applyGridLayout(n, c[1], c[2])
       /\ wrapper = updateContainerSize(applyGridLayout(n, c[1], c[2]),
                                        [w |-> Zero, h |-> Zero])
  /\ layoutGroups = <<>>
  /\ fitTimer = TRUE
  /\ grid = [w |-> Zero, h |-> Zero]

\* PivotViewer after renderGrid() in a container at least one thumbnail wide
InitViewViewer ==
  /\ page = "PivotViewer"
  /\ \E c \in ViewportSizes : \E rows \in GridRows :
       /\ gridWidth(c[1]) > 0
       /\ containerW = c[1]
       /\ containerH = c[2]
       /\ grid = [w |-> Num(gridWidth(c[1])), h |-> Num(rows * (thumbnailSize + gap))]
  /\ layoutN = 0
  /\ layoutGroups = <<>>
  /\ layoutOut = [kind |-> "none"]
  /\ wrapper = [w |-> Zero, h |-> Zero]
  /\ fitTimer = FALSE

InitViewport ==
  /\ InitAnimator
  /\ InitLoaded
  /\ InitDetail
  /\ InitWorld
  /\ InitApp
  /\ hidden = [e \in Elements |-> "unset"]
  /\ display = [e \in Elements |-> ""]
  /\ rect = [e \in Elements |-> RBase]
  /\ scale = One
  /\ panOffset = Origin
  /\ isPanning = FALSE
  /\ panStart = Origin
  /\ flipPending = FALSE
  /\ translate = Origin
  /\ isDragging = FALSE
  /\ dragStart = Origin
  /\ lastTranslate = Origin
  /\ viewLog = NoLog
  /\ viewOps = 0
  /\ \/ InitViewApp
     \/ InitViewViewer

NextView ==
  \/ \E f \in ZoomFactors("PivotApp") : ZoomStep(f)
  \/ \E d \in WheelDeltas : WheelStep(d[1], d[2])
  \/ FitButton
  \/ FitTimer
  \/ \E c \in ViewportSizes : WindowResize(c[1], c[2])
  \/ \E n \in VisibleCounts : LayoutChange(n)
  \/ \E k \in GroupCounts : Regroup(k)
  \/ FlipComplete
  \/ \E m \in PressAt : \E onItem \in BOOLEAN : MouseDown(m, onItem)
  \/ \E m \in Mice : MouseMove(m)
  \/ MouseUp
  \/ \E f \in ZoomFactors("PivotViewer") : ViewerZoomStep(f)
  \/ \E d \in {100, -100} : \E m \in Mice : ViewerWheelStep(d, m)
  \/ ViewerFit
  \/ \E m \in PressAt : \E onItem \in BOOLEAN : ViewerMouseDown(m, onItem)
  \/ \E m \in Mice : ViewerMouseMove(m)
  \/ ViewerMouseUp
  \/ \E c \in ViewportSizes : ViewerResize(c[1], c[2])

SpecView == InitViewport /\ [][NextView]_vars

(* ------------------------ viewport properties -------------------------- *)

\* the translation of the viewer the page runs
Translation == IF page = "PivotApp" THEN panOffset ELSE translate

\* the last operation was a zoom (button, key or wheel) by some factor
Zoomed == viewLog.op \in {"zoom", "wheel"}

\* C12: after every zoom operation with factor f (buttons, keys, wheel; PivotApp.zoom,
\* PivotViewer.zoom, the wheel handler of PivotViewer) the scale is
\* clamp(scale * f, minScale, maxScale) of the scale before: maxScale when scale * f
\* exceeds it, minScale when scale * f falls below it.
C12_ZoomClamps ==
  Zoomed => scale = Clamp(Times(viewLog.scale, viewLog.factor),
                          minScale(page), maxScale(page))

\* the last operation was a zoom whose clamped scale is the scale it started from
ZoomedInPlace ==
  /\ Zoomed
  /\ Clamp(Times(viewLog.scale, viewLog.factor), minScale(page), maxScale(page))
       = viewLog.scale

\* C13: a zoom with factor 1.0, and any zoom whose clamped scale equals the current
\* scale, changes neither the scale nor the translation.
C13_ZoomInPlaceIsNoOp ==
  ZoomedInPlace => scale = viewLog.scale /\ Translation = viewLog.pan

\* scale * f lies within [minScale, maxScale]
Within(s, f) ==
  /\ Leq(minScale(page), Times(s, f))
  /\ Leq(Times(s, f), maxScale(page))

\* this step is a zoom by factor g made through zoom(factor)
ZoomsBy(g) == viewLog'.op = "zoom" /\ viewLog'.factor = g /\ viewOps' = viewOps + 1

\* C14: a zoom by f about the container centre followed at once by a zoom by 1/f
\* restores the scale and the translation the first zoom started from, for every f
\* with scale * f within [minScale, maxScale].
C14_ZoomRoundTrip ==
  [][(/\ viewLog.op = "zoom"
      /\ Within(viewLog.scale, viewLog.factor)
      /\ ZoomsBy(Inverse(viewLog.factor)))
     => (scale' = viewLog.scale /\ Translation' = viewLog.pan)]_vars

\* the last operation of PivotApp ended with constrainPan()
AfterConstrainPan ==
  page = "PivotApp" /\ viewLog.op \in {"zoom", "scroll", "pan", "constrain"}

\* the offset on one axis is centred when the scaled content is not larger than the
\* container, and within [container - content, 0] otherwise
AxisConstrained(pan, container, content) ==
  IF Leq(content, container) THEN pan = Half(Minus(container, content))
  ELSE Leq(Minus(container, content), pan) /\ Leq(pan, Zero)

\* offsets, container sizes and content sizes for the other axis
OtherAxis == {Zero, Num(-50), Num(240), Num(1000)}

\* C15: after constrainPan, on each axis by itself, the offset is
\* (container - scaledContent) / 2 when the scaled content is not larger than the
\* container and lies in [container - scaledContent, 0] otherwise; the result on an
\* axis is the same whatever the offset, container size and content size of the
\* other axis; constrainPan applied again changes nothing.
C15_ConstrainPan ==
  AfterConstrainPan =>
    /\ AxisConstrained(panOffset.x, Num(containerW), Times(wrapper.w, scale))
    /\ AxisConstrained(panOffset.y, Num(containerH), Times(wrapper.h, scale))
    /\ constrainPan(panOffset, scale, containerW, containerH, wrapper) = panOffset
    /\ \A q \in OtherAxis : \A c \in ViewportSizes : \A s \in OtherAxis \ {Zero} :
         /\ constrainPan(Point(panOffset.x, q), scale, containerW, c[2],
                         [w |-> wrapper.w, h |-> s]).x = panOffset.x
         /\ constrainPan(Point(q, panOffset.y), scale, c[1], containerH,
                         [w |-> s, h |-> wrapper.h]).y = panOffset.y

\* constrainPan has run with the content higher than the container, where it is
\* kept off the centre, and narrower than the container, where it is centred
C15_Witness ==
  /\ AfterConstrainPan
  /\ Less(Num(containerH), Times(wrapper.h, scale))
  /\ panOffset.y # Half(Minus(Num(containerH), Times(wrapper.h, scale)))
  /\ Less(Times(wrapper.w, scale), Num(containerW))
  /\ panOffset.x = Half(Minus(Num(containerW), Times(wrapper.w, scale)))

\* the last operation was fitToViewport (button, timer or resize handler)
Fitted == viewLog.op = "fit"

\* the unscaled content: the wrapper of PivotApp, the grid of PivotViewer
Content == IF page = "PivotApp" THEN wrapper ELSE grid

\* the largest scale fitToViewport may set
MaxFit == IF page = "PivotApp" THEN maxScale(page) ELSE maxFitScale

\* fitToViewport called in the current state
FitAgain ==
  IF page = "PivotApp" THEN fitToViewport(containerW, containerH, wrapper)
  ELSE viewerFitToViewport(scale, containerW, containerH, grid)

\* C16: after fitToViewport the scale is
\* clamp(min(containerWidth / contentWidth, containerHeight / contentHeight),
\* minScale, maxFitScale), the translation is (container - content * scale) / 2 on
\* both axes, also when the content stays larger than the container, and a second
\* fitToViewport changes neither scale nor translation.
C16_FitToViewport ==
  Fitted =>
    /\ scale = Clamp(MinOf(Over(Num(containerW), Content.w),
                           Over(Num(containerH), Content.h)),
                     minScale(page), MaxFit)
    /\ Translation = centred(scale, containerW, containerH, Content)
    /\ FitAgain = [scale |-> scale, pan |-> Translation]

\* the container has no width or no height
EmptyContainer == containerW <= 0 \/ containerH <= 0

\* the last operation was fitToViewport, a zoom or one that ran constrainPan
ViewportOp == viewLog.op \in {"fit", "zoom", "wheel", "scroll", "pan", "constrain"}

\* C17: viewport operations (fitToViewport, zoom, constrainPan) given a zero or
\* negative container size leave the viewport at scale 1 and translation (0, 0),
\* with the scale inside [minScale, maxScale].
C17_EmptyContainerResets ==
  (EmptyContainer /\ ViewportOp) =>
    /\ scale = One
    /\ Translation = Origin
    /\ Leq(minScale(page), scale)
    /\ Leq(scale, maxScale(page))

Registered == {p[2] : p \in runningAnimations}

\* cancel() of an animation that has finished leaves the registry and the styles
\* of the elements as they are
CancelAfterFinishIsNoOp ==
  \A id \in 1..Len(anims) :
    anims[id].state = "finished" =>
      /\ cancel(Cur, id).reg = runningAnimations
      /\ cancel(Cur, id).hidden = hidden
      /\ cancel(Cur, id).display = display

Viewers == {"PivotApp", "PivotViewer", "AdViewerDZI", "AdViewerSample"}

\* numbers of ads in a manifest
ManifestAds == {0, 1, MaxItems}

\* what the request for data/ads.json can yield: a rejected fetch, a 404 page, a
\* body that is not JSON, the manifest object {ads, verticals, gridSize, ...} or a
\* bare array of ads
Responses ==
  {[kind |-> k, n |-> 0] : k \in {"rejected", "notFound", "invalid"}}
    \cup {[kind |-> k, n |-> n] : k \in {"object", "array"}, n \in ManifestAds}

\* PivotViewer.fitToViewport over a grid without thumbnails: gridRect.height is 0
\* and scaleY is Infinity
viewerFitEmpty(sc, cw, ch, g) ==
  [scale |-> MaxOf(MinOf(Over(Num(cw - fitPadding), Over(Times(g.w, sc), sc)),
                         maxFitScale),
                   minScale("PivotViewer")),
   pan |-> viewerCentre(MaxOf(MinOf(Over(Num(cw - fitPadding),
                                         Over(Times(g.w, sc), sc)),
                                    maxFitScale),
                              minScale("PivotViewer")),
                        cw, ch, gridRectAt(g, sc))]

\* renderGrid: the box of the grid with n thumbnails in rows of
\* gridWidth / (thumbnailSize + gap)
renderGrid(n, cw) ==
  [w |-> Num(gridWidth(cw)),
   h |-> Num(((n + (gridWidth(cw) \div (thumbnailSize + gap)) - 1)
                \div (gridWidth(cw) \div (thumbnailSize + gap)))
             * (thumbnailSize + gap))]

\* the constructor has called init(), which waits for the load
InitBoot ==
  /\ InitDetail
  /\ InitWorld
  /\ InitAnimator
  /\ InitLayout
  /\ hidden = [e \in Elements |-> "unset"]
  /\ display = [e \in Elements |-> ""]
  /\ rect = [e \in Elements |-> RBase]
  /\ activeFilters = [f \in Fields |-> <<>>]
  /\ filteredAds = <<>>
  /\ currentSortBy = "size"
  /\ currentSortOrder = "asc"
  /\ currentGroupBy = ""
  /\ groupByValue = ""
  /\ userSetGroup = FALSE
  /\ changes = 0
  /\ page \in Viewers
  /\ scale = One
  /\ panOffset = Origin
  /\ isPanning = FALSE
  /\ panStart = Origin
  /\ wrapper = [w |-> Zero, h |-> Zero]
  /\ fitTimer = FALSE
  /\ flipPending = FALSE
  /\ translate = Origin
  /\ isDragging = FALSE
  /\ dragStart = Origin
  /\ lastTranslate = Origin
  /\ grid = [w |-> Zero, h |-> Zero]
  /\ viewLog = NoLog
  /\ viewOps = 0
  /\ response \in Responses
  /\ initAt = "fetch"
  /\ ads = 0
  /\ dataFields = FALSE
  /\ errors = 0
  /\ steps = {}
  /\ filterOptions = FALSE
  /\ loadingHidden = FALSE
  /\ uncaught = "none"
  /\ filterBox \in BOOLEAN

\* the request settles and the load method runs to its end, through its catch
\* when something was thrown
LoadSettles ==
  /\ initAt = "fetch"
  /\ initAt' = "loaded"
  /\ ads' = loadOf(page, response).ads
  /\ dataFields' = loadOf(page, response).fields
  /\ errors' = errors + loadOf(page, response).errors
  /\ filteredAds' = IF page = "PivotApp"
                    THEN [i \in 1..loadOf(page, response).ads |-> i]
                    ELSE filteredAds
  /\ UNCHANGED <<response, steps, filterOptions, loadingHidden, uncaught, filterBox>>
  /\ UNCHANGED <<activeFilters, currentSortBy, currentSortOrder, currentGroupBy,
                 groupByValue, userSetGroup, changes>>
  /\ UNCHANGED animVars
  /\ UNCHANGED detailVars
  /\ UNCHANGED worldVars
  /\ UNCHANGED layoutVars
  /\ UNCHANGED viewVars

\* init() goes on after the await: its calls in order, up to the one that throws;
\* PivotApp lays the items out, PivotViewer renders its grid, both schedule the fit
InitContinues ==
  /\ initAt = "loaded"
  /\ steps' = returned(page, throwsAt(page, dataFields, filterBox))
  /\ IF throwsAt(page, dataFields, filterBox) # 0
     THEN /\ initAt' = "aborted"
          /\ uncaught' = "TypeError"
          /\ filterOptions' = FALSE
          /\ UNCHANGED <<layoutN, layoutOut, wrapper, grid, fitTimer>>
     ELSE /\ initAt' = "ready"
          /\ uncaught' = "none"
          /\ filterOptions' = populated(page, dataFields, filterBox)
          /\ layoutN' = IF page = "PivotApp" THEN ads ELSE layoutN
          /\ layoutOut' = IF page = "PivotApp"
                          THEN layoutFor(ads, containerW, containerH)
                          ELSE layoutOut
          /\ wrapper' = IF page = "PivotApp"
                        THEN wrapperFor(ads, containerW, containerH)
                        ELSE wrapper
          /\ grid' = IF page = "PivotViewer" THEN renderGrid(ads, containerW) ELSE grid
          /\ fitTimer' = (page \in {"PivotApp", "PivotViewer"})
  /\ UNCHANGED <<response, ads, dataFields, errors, loadingHidden, filterBox>>
  /\ UNCHANGED <<page, scale, panOffset, isPanning, panStart, flipPending, translate,
                 isDragging, dragStart, lastTranslate, viewLog, viewOps>>
  /\ UNCHANGED <<containerW, containerH, layoutGroups>>
  /\ UNCHANGED animVars
  /\ UNCHANGED detailVars
  /\ UNCHANGED worldVars
  /\ UNCHANGED appVars

\* PivotApp: the second animation frame runs fitToViewport() and hideLoading()
FrameCallback ==
  /\ page = "PivotApp"
  /\ initAt = "ready"
  /\ initAt' = "done"
  /\ fitTimer' = FALSE
  /\ scale' = fitToViewport(containerW, containerH, wrapper).scale
  /\ panOffset' = fitToViewport(containerW, containerH, wrapper).pan
  /\ viewLog' = Logged("fit", One)
  /\ steps' = steps \cup {"fitToViewport", "hideLoading"}
  /\ loadingHidden' = TRUE
  /\ UNCHANGED <<response, ads, dataFields, errors, filterOptions, uncaught, filterBox>>
  /\ UNCHANGED <<page, isPanning, panStart, wrapper, flipPending, viewOps>>
  /\ UNCHANGED viewerFields
  /\ UNCHANGED animVars
  /\ UNCHANGED detailVars
  /\ UNCHANGED worldVars
  /\ UNCHANGED appVars
  /\ UNCHANGED layoutVars

\* PivotViewer: the 100 ms timer runs fitToViewport()
FitTimeout ==
  /\ page = "PivotViewer"
  /\ initAt = "ready"
  /\ initAt' = "fitted"
  /\ fitTimer' = FALSE
  /\ scale' = IF grid.h = Zero
              THEN viewerFitEmpty(scale, containerW, containerH, grid).scale
              ELSE viewerFitToViewport(scale, containerW, containerH, grid).scale
  /\ translate' = IF grid.h = Zero
                  THEN viewerFitEmpty(scale, containerW, containerH, grid).pan
                  ELSE viewerFitToViewport(scale, containerW, containerH, grid).pan
  /\ viewLog' = Logged("fit", One)
  /\ steps' = steps \cup {"fitToViewport"}
  /\ UNCHANGED <<response, ads, dataFields, errors, filterOptions, loadingHidden,
                 uncaught, filterBox>>
  /\ UNCHANGED <<page, panOffset, isPanning, panStart, wrapper, flipPending, isDragging,
                 dragStart, lastTranslate, grid, viewOps>>
  /\ UNCHANGED animVars
  /\ UNCHANGED detailVars
  /\ UNCHANGED worldVars
  /\ UNCHANGED appVars
  /\ UNCHANGED layoutVars

\* PivotViewer and both AdViewers: the 500 ms timer hides #loading
HideLoadingTimeout ==
  /\ \/ page = "PivotViewer" /\ initAt = "fitted"
     \/ page \in {"AdViewerDZI", "AdViewerSample"} /\ initAt = "ready"
  /\ initAt' = "done"
  /\ loadingHidden' = TRUE
  /\ UNCHANGED <<response, ads, dataFields, errors, steps, filterOptions, uncaught,
                 filterBox>>
  /\ UNCHANGED animVars
  /\ UNCHANGED detailVars
  /\ UNCHANGED worldVars
  /\ UNCHANGED appVars
  /\ UNCHANGED layoutVars
  /\ UNCHANGED viewVars

NextBoot ==
  \/ LoadSettles
  \/ InitContinues
  \/ FrameCallback
  \/ FitTimeout
  \/ HideLoadingTimeout

SpecBoot == InitBoot /\ [][NextBoot]_vars

(* ---------------------- initialization properties ---------------------- *)

\* fetching or parsing the manifest failed
LoadFailed == Unparsed(response)

\* init() has run to its end: every call made, the filters set up, the fit made,
\* the loading indicator hidden
RanToEnd ==
  /\ returned(page, 0) \subseteq steps
  /\ filterBox => filterOptions
  /\ page \in {"PivotApp", "PivotViewer"} => "fitToViewport" \in steps
  /\ loadingHidden

\* C18: if fetching or parsing the manifest fails, the failure is logged and
\* initialization still runs to its end (filters set up, items created, layout
\* applied, loading indicator hidden) with an empty or sample-generated item set;
\* no exception aborts init in any of the viewers (PivotApp, PivotViewer, both
\* AdViewer variants).
C18_InitSurvivesLoadFailure ==
  LoadFailed =>
    /\ initAt # "fetch" => errors = 1 /\ ads \in {0, SampleAds}
    /\ uncaught = "none"
    /\ initAt # "aborted"
    /\ initAt = "done" => RanToEnd

\* PivotApp has made an operation and nothing it scheduled is still to run: no
\* delayed fitToViewport(), no onComplete of animateLayoutChange
Settled == page = "PivotApp" /\ viewLog.op # "none" /\ ~fitTimer /\ ~flipPending

\* C21: in PivotApp, after every user operation (drag pan, horizontal wheel pan,
\* zoom, fit, filter / sort / group change, resize), once the animations and
\* callbacks it triggered have settled, the pan offset satisfies the
\* content-fits-or-centers constraint for the current scale, content size and
\* container size: centred on an axis where the scaled content fits, within
\* [container - content, 0] otherwise.
C21_SettledPanConstrained ==
  Settled =>
    /\ AxisConstrained(panOffset.x, Num(containerW), Times(wrapper.w, scale))
    /\ AxisConstrained(panOffset.y, Num(containerH), Times(wrapper.h, scale))

\* a change of the grouping has settled with content larger than the container on
\* one axis, where onComplete moved the offset back to the edge
C21_Witness ==
  /\ Settled
  /\ containerW > 0 /\ containerH > 0
  /\ viewLog.op = "constrain"
  /\ viewLog.pan # panOffset
  /\ \/ Less(Num(containerW), Times(wrapper.w, scale))
     \/ Less(Num(containerH), Times(wrapper.h, scale))

\* the pan controller is in its panning state
Panning == IF page = "PivotApp" THEN isPanning ELSE isDragging

\* the step is a mouse button going down on the background
BackgroundPress ==
  \E m \in PressAt : MouseDown(m, FALSE) \/ ViewerMouseDown(m, FALSE)

\* the step is a mouse button going down over an item
ItemPress == \E m \in PressAt : MouseDown(m, TRUE) \/ ViewerMouseDown(m, TRUE)

\* the step is the mouse button going up
Release == MouseUp \/ ViewerMouseUp

\* the unscaled content of the viewer the page runs
Shown == IF page = "PivotApp" THEN wrapper ELSE grid

\* the translation at pan start plus the way the mouse went since, then constrained
Dragged(m) ==
  constrainPan(Point(Plus(viewLog.press.from.x, Minus(m.x, viewLog.press.at.x)),
                     Plus(viewLog.press.from.y, Minus(m.y, viewLog.press.at.y))),
               scale, containerW, containerH, Shown)

\* the pan controller as claimed, step by step
PanSteps ==
  /\ (~Panning /\ Panning') => BackgroundPress
  /\ ItemPress => ~Panning'
  /\ BackgroundPress => Panning'
  /\ (Panning /\ ~Panning') => Release
  /\ Release => ~Panning'
  /\ \A m \in Mice :
       (MouseMove(m) \/ ViewerMouseMove(m)) =>
         /\ Panning' = Panning
         /\ scale' = scale
         /\ Translation' = IF Panning THEN Dragged(m) ELSE Translation

\* C22: the pan controller has two states, idle and panning: it enters panning only
\* on a pointer-down on the background (never on a pointer-down over an item),
\* returns to idle on pointer-up, and pointer movement changes the translation only
\* while panning, in which case the translation equals the translation at pan start
\* plus the pointer delta since pan start, then constrained; pointer movement in
\* idle leaves scale and translation unchanged.  Stated for PivotApp and PivotViewer.
C22_PanController == [][PanSteps]_vars


(* ------------------------- the detail panel ---------------------------- *)

\* slide animations playing at once on the panel in one behaviour
MaxSlides == 3
\* flip / fadeOut / fadeIn calls in one behaviour of PivotApp with its detail panel
MaxDetailCalls == 2

\* options.duration || 400 of slideInRight, options.duration || 300 of slideOutRight
slideInDuration == 400
slideOutDuration == 300

NoSlide == [kind |-> "none", superseded |-> FALSE]

\* panel.animate(...): the animations that play already go on playing; superseded
\* records that a later slide was started on the panel while this one played
started(playing, kind) ==
  Append([i \in 1..Len(playing) |-> [playing[i] EXCEPT !.superseded = TRUE]],
         [kind |-> kind, superseded |-> FALSE])

\* PivotAnimator.slideInRight(panel) and slideOutRight(panel), on the state of the panel
slideInRight(D) == [D EXCEPT !.display = "flex", !.slides = started(@, "in")]
slideOutRight(D) == [D EXCEPT !.slides = started(@, "out")]

\* the detail state of PivotApp as one record
CurDetail ==
  [open |-> detailOpen, index |-> selectedIndex, shown |-> detailShown,
   display |-> panelDisplay, slides |-> slides]

SetDetail(D) ==
  /\ detailOpen' = D.open
  /\ selectedIndex' = D.index
  /\ detailShown' = D.shown
  /\ panelDisplay' = D.display
  /\ slides' = D.slides

\* PivotApp.openDetail(ad): findIndex gives -1 for an ad outside the visible set
openDetail(D, fa, ad) ==
  LET found == IndexOf(fa, ad) - 1
  IN IF found = -1
     THEN [D EXCEPT !.index = -1]
     ELSE slideInRight([D EXCEPT !.open = TRUE, !.index = found, !.shown = ad])

\* PivotApp.closeDetail()
closeDetail(D) ==
  IF ~D.open THEN D ELSE slideOutRight([D EXCEPT !.open = FALSE])

\* selectedIndex += direction, with the wrap-around
wrapped(index, direction, n) ==
  IF index + direction < 0 THEN n - 1
  ELSE IF index + direction >= n THEN 0
  ELSE index + direction

\* PivotApp.navigateDetail(direction)
navigateDetail(D, fa, direction) ==
  IF ~D.open THEN D
  ELSE IF wrapped(D.index, direction, Len(fa)) \in 0..(Len(fa) - 1)
  THEN openDetail([D EXCEPT !.index = wrapped(D.index, direction, Len(fa))], fa,
                  fa[wrapped(D.index, direction, Len(fa)) + 1])
  ELSE [D EXCEPT !.index = wrapped(D.index, direction, Len(fa))]

OutsideDetail ==
  /\ UNCHANGED lastFinish
  /\ UNCHANGED worldVars
  /\ UNCHANGED animVars
  /\ UNCHANGED appVars
  /\ UNCHANGED layoutVars
  /\ UNCHANGED viewVars
  /\ UNCHANGED bootVars

\* a click on the grid item of ad, which is still rendered
ItemClick(ad) ==
  /\ display[ad] # "none"
  /\ Len(slides) < MaxSlides
  /\ SetDetail(openDetail(CurDetail, filteredAds, ad))
  /\ OutsideDetail

\* a click on #close-detail, or the Escape key while the panel is open
CloseClick ==
  /\ Len(slides) < MaxSlides
  /\ SetDetail(closeDetail(CurDetail))
  /\ OutsideDetail

\* a click on #prev-item or #next-item, or an arrow key while the panel is open
Navigate(direction) ==
  /\ Len(slides) < MaxSlides
  /\ SetDetail(navigateDetail(CurDetail, filteredAds, direction))
  /\ OutsideDetail

durationOf(kind) == IF kind = "in" THEN slideInDuration ELSE slideOutDuration

\* slide i reaches its end before the others that play: no slide started earlier
\* has a duration that is not longer
EndsNext(i) ==
  \A j \in 1..(i - 1) : durationOf(slides[j].kind) > durationOf(slides[i].kind)

\* animation.onfinish of a slide: slideOutRight's handler hides the panel, both clear
\* the inline transform
SlideFinish(i) ==
  /\ i \in 1..Len(slides)
  /\ EndsNext(i)
  /\ panelDisplay' = IF slides[i].kind = "out" THEN "none" ELSE panelDisplay
  /\ slides' = [k \in 1..(Len(slides) - 1) |-> IF k < i THEN slides[k] ELSE slides[k + 1]]
  /\ lastFinish' = slides[i]
  /\ UNCHANGED <<detailOpen, selectedIndex, detailShown>>
  /\ UNCHANGED worldVars
  /\ UNCHANGED animVars
  /\ UNCHANGED appVars
  /\ UNCHANGED layoutVars
  /\ UNCHANGED viewVars
  /\ UNCHANGED bootVars

NextDetail ==
  \/ \E ad \in Elements : ItemClick(ad)
  \/ CloseClick
  \/ \E direction \in {-1, 1} : Navigate(direction)
  \/ \E i \in 1..MaxSlides : SlideFinish(i)
  \/ /\ Room(2, MaxDetailCalls)
     /\ \E f \in Fields : \E v \in FilterValues(f) : \E checked \in BOOLEAN :
          HandleFilterChange(f, v, checked)
  \/ /\ Room(2, MaxDetailCalls)
     /\ ClearAllFilters
  \/ /\ Room(1, MaxDetailCalls)
     /\ \E f \in SortFields : SortByChange(f)
  \/ /\ Room(1, MaxDetailCalls)
     /\ \E o \in {"asc", "desc"} : SortOrderChange(o)
  \/ \E B \in SUBSET Playing : FinishFrame(B)
  \/ RunOnComplete(rect, {})
  \/ DispatchFinish

SpecDetail == InitPivotApp /\ [][NextDetail]_vars

\* C23: slideInRight and slideOutRight follow the cancel rule of flip, fadeOut and
\* fadeIn: starting a slide on the panel cancels any slide still in flight on it, so
\* at most one slide animation plays on the panel at any time and the finish handler
\* of a superseded slide never runs.
C23_SlideCancelRule ==
  /\ Len(slides) <= 1
  /\ ~lastFinish.superseded

\* C28: once all slide animations have finished, the detail panel is displayed if
\* and only if detailOpen is true, after any sequence of openDetail and closeDetail,
\* also when one follows the other before the previous slide has finished.
C28_PanelMatchesDetailOpen ==
  slides = <<>> => ((panelDisplay = "flex") <=> detailOpen)

\* C29: whenever the detail panel is open, 0 <= selectedIndex < filteredAds.length
\* and filteredAds[selectedIndex] is the item shown in the panel, after any
\* interleaving of openDetail, navigateDetail with wrap-around, filter changes, sort
\* changes and clear-all.
C29_SelectionValid ==
  detailOpen =>
    /\ 0 <= selectedIndex
    /\ selectedIndex < Len(filteredAds)
    /\ filteredAds[selectedIndex + 1] = detailShown


\* the animations of flip, fadeOut and fadeIn that play on element e
InFlight(e) == {id \in 1..Len(anims) : anims[id].el = e /\ anims[id].state = "running"}

\* C24: the registry is exactly the set of in-flight animations started by flip,
\* fadeOut or fadeIn: an element has a registry entry if and only if such an
\* animation still plays on it, and the entry is that animation; the finish handler
\* of an earlier animation never removes the entry of a later one.  Stated between
\* frames, when every queued reaction and finish event has run.
C24_RegistryIsInFlight ==
  Idle => \A e \in Elements : Entries(runningAnimations, e) = {<<e, id>> : id \in InFlight(e)}


\* the block of group g lies inside the g-th slot of width columnWidth
InSlot(L, g) ==
  /\ L.groups[g].blockWidth <= L.columnWidth
  /\ 2 * (g - 1) * L.columnWidth <= L.groups[g].blockX2
  /\ L.groups[g].blockX2 + 2 * L.groups[g].blockWidth <= 2 * g * L.columnWidth

\* the statement as made: for every container width the block is not wider than
\* containerWidth / groupCount, no two blocks overlap and none starts left of 0
C25_Original ==
  layoutOut.kind = "grouped" =>
    LET G == layoutOut.groups
    IN /\ \A g \in 1..Len(G) : G[g].blockWidth * Len(G) <= containerW
       /\ \A g \in 1..Len(G) : G[g].blockX2 >= 0
       /\ \A g, h \in 1..Len(G) : g < h => G[g].blockX2 + 2 * G[g].blockWidth <= G[h].blockX2

\* C25: in the grouped layout, for every number of groups >= 1 and every container
\* width that leaves each group's slot (the container width less the padding,
\* divided by the group count) at least one cell wide, the column count chosen
\* makes the group's block fit inside its slot, so the blocks of two groups never
\* overlap horizontally and no block extends left of x = 0; the column count is
\* the largest that leaves the gap between the blocks free, and at least 1.
C25_BlocksFitSlots ==
  (layoutOut.kind = "grouped" /\ layoutOut.columnWidth >= baseHeight) =>
    /\ \A g \in 1..Len(layoutOut.groups) : InSlot(layoutOut, g)
    /\ C25_Original
    /\ layoutOut.cols >= 1
    /\ \/ layoutOut.cols = 1
       \/ layoutOut.cols * (baseHeight + itemGap) <= layoutOut.columnWidth - blockGap
    /\ (layoutOut.cols + 1) * (baseHeight + itemGap) > layoutOut.columnWidth - blockGap

\* three groups in slots that take two columns each
C25_Witness ==
  /\ layoutOut.kind = "grouped"
  /\ Len(layoutOut.groups) = MaxGroups
  /\ layoutOut.columnWidth >= baseHeight
  /\ layoutOut.cols = 2
  /\ \E g \in 1..Len(layoutOut.groups) : layoutOut.groups[g].count > layoutOut.cols


\* the item element is hidden: data-hidden = 'true' or display = 'none'
HiddenItem(e) == hidden[e] = "true" \/ display[e] = "none"

\* no animation plays, no reaction and no finish event is queued
AllSettled == Idle /\ Playing = {}

\* C26: after any sequence of filter toggles and clear-all operations, also ones
\* issued while a fade-out, fade-in or FLIP animation of an earlier change is in
\* flight, once all animations and callbacks have settled an item element is hidden
\* if and only if its item fails the active filters; a matching item is never left
\* hidden.
C26_HiddenIffFiltered ==
  AllSettled => \A e \in Elements : HiddenItem(e) <=> e \notin Matching(activeFilters)


(* ------------------ the world of the deep-zoom AdViewer ---------------- *)
(* Tiles are followed by the ad they carry (userData); their order in the   *)
(* world, their positions and opacity, the labels and the viewport are not  *)
(* represented.  Every image loads, in any order.                           *)

\* applyFilters() calls in one behaviour of the AdViewer
MaxFilterChanges == 3

\* the ads of the tiles in a list of tiles
TileAds(tiles) == {t.ad : t \in tiles}

\* viewer.addSimpleImage({userData: ad, ...}) for the ads of the list, in order:
\* the tile enters the world when its image has loaded
addSimpleImages(pending, made, adList) ==
  pending \cup {[ad |-> adList[i], item |-> made + i] : i \in 1..Len(adList)}

\* layoutAsGrid() and layoutAsStacks(): world.removeAll(), one request per ad
layoutFresh(W, fa) ==
  [W EXCEPT !.world = {},
            !.loading = addSimpleImages(@, W.requested, fa),
            !.requested = @ + Len(fa)]

\* animateToLayout(): a tile whose ad is in the filtered set is moved, any other
\* is faded and removed 500 ms later; every ad with no tile in the world is requested
animateToLayout(W, fa) ==
  LET leaving == {t.item : t \in {u \in W.world : u.ad \notin Range(fa)}}
      missing == SelectSeq(fa, LAMBDA a : a \notin TileAds(W.world))
  IN [W EXCEPT !.removals = @ \cup leaving,
               !.loading = addSimpleImages(@, W.requested, missing),
               !.requested = @ + Len(missing)]

\* AdViewer.layoutAds()
layoutAds(W, fa) ==
  IF Len(fa) = 0 THEN W
  ELSE IF W.world # {} THEN animateToLayout(W, fa)
  ELSE layoutFresh(W, fa)

CurWorld ==
  [world |-> world, loading |-> loading, removals |-> removals, requested |-> requested]

\* the world of an initial state
SetWorldAt(W) ==
  /\ world = W.world
  /\ loading = W.loading
  /\ removals = W.removals
  /\ requested = W.requested

SetWorld(W) ==
  /\ world' = W.world
  /\ loading' = W.loading
  /\ removals' = W.removals
  /\ requested' = W.requested

OutsideWorld ==
  /\ UNCHANGED animVars
  /\ UNCHANGED layoutVars
  /\ UNCHANGED viewVars
  /\ UNCHANGED bootVars
  /\ UNCHANGED detailVars

\* the change listener of a filter checkbox: AdViewer.applyFilters()
TileFilterChange(field, value, checked) ==
  LET boxes == [activeFilters EXCEPT
                  ![field] = IF checked THEN pushIfAbsent(@, value) ELSE without(@, value)]
      fa == filterAds({e \in Elements : Matches(Ads[e], boxes)})
  IN /\ page = "AdViewerSample"
     /\ changes < MaxFilterChanges
     /\ boxes # activeFilters
     /\ activeFilters' = boxes
     /\ filteredAds' = fa
     /\ changes' = changes + 1
     /\ SetWorld(layoutAds(CurWorld, fa))
     /\ UNCHANGED <<currentSortBy, currentSortOrder, currentGroupBy, groupByValue,
                    userSetGroup>>
     /\ OutsideWorld

\* AdViewer.resetFilters(): every box unchecked, then applyFilters()
ResetFilters ==
  LET fa == filterAds(Elements)
  IN /\ page = "AdViewerSample"
     /\ changes < MaxFilterChanges
     /\ activeFilters' = [f \in Fields |-> <<>>]
     /\ filteredAds' = fa
     /\ changes' = changes + 1
     /\ SetWorld(layoutAds(CurWorld, fa))
     /\ UNCHANGED <<currentSortBy, currentSortOrder, currentGroupBy, groupByValue,
                    userSetGroup>>
     /\ OutsideWorld

\* the image of a request has loaded: its tile is added to the world
ImageLoaded(t) ==
  /\ t \in loading
  /\ world' = world \cup {t}
  /\ loading' = loading \ {t}
  /\ UNCHANGED <<removals, requested>>
  /\ UNCHANGED appVars
  /\ OutsideWorld

\* setTimeout(() => this.viewer.world.removeItem(item), 500) fires
RemoveTimeout(item) ==
  /\ item \in removals
  /\ removals' = removals \ {item}
  /\ world' = {t \in world : t.item # item}
  /\ UNCHANGED <<loading, requested>>
  /\ UNCHANGED appVars
  /\ OutsideWorld

\* init() has run to its end over the loaded ads: its applyFilters() has asked for
\* one tile per ad and no image has loaded yet
InitTiles ==
  /\ InitAnimator
  /\ InitLayout
  /\ InitDetail
  /\ InitApp
  /\ hidden = [e \in Elements |-> "unset"]
  /\ display = [e \in Elements |-> ""]
  /\ rect = [e \in Elements |-> RBase]
  /\ page = "AdViewerSample"
  /\ scale = One
  /\ panOffset = Origin
  /\ isPanning = FALSE
  /\ panStart = Origin
  /\ wrapper = [w |-> Zero, h |-> Zero]
  /\ fitTimer = FALSE
  /\ flipPending = FALSE
  /\ translate = Origin
  /\ isDragging = FALSE
  /\ dragStart = Origin
  /\ lastTranslate = Origin
  /\ grid = [w |-> Zero, h |-> Zero]
  /\ viewLog = NoLog
  /\ viewOps = 0
  /\ response = [kind |-> "object", n |-> NumAds]
  /\ initAt = "done"
  /\ ads = NumAds
  /\ dataFields = TRUE
  /\ errors = 0
  /\ steps = returned("AdViewerSample", 0)
  /\ filterOptions = TRUE
  /\ loadingHidden = FALSE
  /\ uncaught = "none"
  /\ filterBox = TRUE
  /\ SetWorldAt(layoutAds([world |-> {}, loading |-> {}, removals |-> {},
                           requested |-> 0], filterAds(Elements)))

NextTiles ==
  \/ \E f \in Fields : \E v \in FilterValues(f) : \E checked \in BOOLEAN :
       TileFilterChange(f, v, checked)
  \/ ResetFilters
  \/ \E t \in loading : ImageLoaded(t)
  \/ \E item \in 1..(NumAds * (MaxFilterChanges + 1)) : RemoveTimeout(item)

SpecTiles == InitTiles /\ [][NextTiles]_vars

\* every timer has fired and every image has loaded
TilesSettled == loading = {} /\ removals = {}

\* C27: in the deep-zoom AdViewer, after any sequence of filter changes, also one
\* that arrives within 500 ms of the previous one or before added images have
\* loaded, once all pending timers and image-load callbacks have fired the world
\* contains exactly one tile for every ad in filteredAds and no tile for any ad
\* outside filteredAds.
C27_OneTilePerFilteredAd ==
  TilesSettled =>
    /\ \A a \in Range(filteredAds) :
         Cardinality({t \in world : t.ad = a}) = 1
    /\ TileAds(world) \subseteq Range(filteredAds)

====
